------------------------- MODULE KeyboardFormProofs -------------------------
(***************************************************************************)
(* For all sets of modifiers, keys, lights and hard keys, and however many *)
(* commands wait: what the buttons of the keyboard form display is true    *)
(* once the commands are done, and each message of the host has its one    *)
(* true answer.                                                            *)
(*                                                                         *)
(* A display is right, or something that will correct it waits; so each    *)
(* part of the invariant names the commands that correct it.  Handling a   *)
(* command is looked at with the command taken from the queue, but still   *)
(* counted among what waits.                                               *)
(***************************************************************************)
EXTENDS KeyboardForm, SequenceTheorems, TLAPS

(* What is proved of the input side.  No form here has mouse buttons or    *)
(* motion, and the display's keystrokes use the current modifiers.         *)
P == INSTANCE HIDProtocolProofs
     WITH Buttons <- {}, Masks <- {HID!ModCurrent}, Moves <- {}, MaxStep <- 127, MaxMotion <- 0,
          hidp <- {}, held <- {}, down <- {}, linked <- TRUE, busy <- FALSE, host <- {}

Commands ==
    [cmd : {"ModifiersChanged", "LedsChanged", "ResetHIDState", "UnplugReceived",
            "SwitchForms", "SwitchScreens"}]
    \cup [cmd : {"Select"}, screen : Screens]
    \cup [cmd : {"Keyboard"}, action : {"Click"}, key : Mods \cup Keys]
    \cup [cmd : {"HardKey"}, action : {"Press", "Release"}, key : Mods]
    \cup [cmd : {"HardKey"}, action : {"Press"}, key : {"Hard1", "Hard2"}]
NoCommand == [cmd |-> "none"]

(* What is sent has any form.                                              *)
Worlds(sent) ==
    [hidp : P!Call, leds : SUBSET Leds, suspended : BOOLEAN, bootProtocol : BOOLEAN,
     idleRate : IdleRates, control : {sent}, cmds : Seq(Commands),
     reset : SUBSET {"mods", "leds"}, missed : SUBSET ModButtons, plain : SUBSET ModButtons,
     held : SUBSET Mods, form : {"Mouse", "Keyboard"}, goal : {"none", "Mouse", "Keyboard"},
     open : BOOLEAN, screen : Screens, visible : SUBSET Screens, pushed : Screens,
     value : [Displays -> BOOLEAN], label : [ModButtons -> BOOLEAN],
     state : [ModButtons -> BOOLEAN]]
Typed(n) == n \in Worlds(n.control)

Selects         == {c \in Commands : c.cmd = "Select"}
LightsLater(e)  == {c \in Commands : c.cmd = "LedsChanged" \/ (c.cmd = "Keyboard" /\ c.key = e)}
ModsLater(b)    == {c \in Commands : \/ c.cmd = "ModifiersChanged"
                                     \/ c.cmd \in {"Keyboard", "HardKey"} /\ c.key = b}
Presses(b)      == {c \in Commands : c.cmd = "HardKey" /\ c.action = "Press" /\ c.key = b}
Lifts(b)        == {c \in Commands : c.cmd = "HardKey" /\ c.action = "Release" /\ c.key = b}

(* One of the commands of C waits, or is the one that is handled.          *)
Has(cmds, C)   == \E i \in 1 .. Len(cmds) : cmds[i] \in C
Soon(n, x, C)  == x \in C \/ Has(n.cmds, C)
Faces(n)       == n.form = "Keyboard" /\ n.open

(* The screen that is chosen is shown, and its push button is pressed or   *)
(* is about to be another.                                                 *)
ScreenRight(n, x) == n.visible = {n.screen} /\ (n.pushed = n.screen \/ Soon(n, x, Selects))
Screened(n, x) == /\ n.form = "Keyboard" => n.visible \subseteq {n.screen}
                  /\ Faces(n) => ScreenRight(n, x)

LightsRight(n, x) ==
    \A e \in On(n.screen) \cap LedButtons :
        n.value[e] = (e.key \in n.leds) \/ Soon(n, x, LightsLater(e.key))
Lit(n, x) == Faces(n) /\ "leds" \notin n.reset => LightsRight(n, x)

(* g_modifiers[].state is what the label shows, but for labels never set.  *)
Stated(n) == \A e \in ModButtons \ n.plain : n.label[e] = n.state[e]

(* The modifiers under the fingers f may change silently.                  *)
Right(n, e) == /\ n.value[e] = (e.key \in HIDPModifiers(n))
               /\ n.state[e] = Locked(HIDPModifierState(n, e.key))
ModsRight(n, x, f) ==
    \A e \in ModButtons \ n.missed :
        e.key \in f \/ Soon(n, x, ModsLater(e.key)) \/ Right(n, e)
Modified(n, x, f) == Faces(n) /\ "mods" \notin n.reset => ModsRight(n, x, f)

(* The fingers f are those that the input side has been told of: a key that*)
(* is up is not one of them, or will not be.                               *)
Lifted(n, x, f) ==
    \A b \in Mods \ n.held :
        /\ b \in f => Soon(n, x, Lifts(b))
        /\ x \in Presses(b) => Has(n.cmds, Lifts(b))
        /\ \A i \in 1 .. Len(n.cmds) : n.cmds[i] \in Presses(b) =>
               \E j \in 1 .. Len(n.cmds) : i < j /\ n.cmds[j] \in Lifts(b)

Sound(n, x, f) ==
    /\ Typed(n) /\ Screened(n, x) /\ Lit(n, x) /\ Stated(n) /\ Modified(n, x, f)
    /\ f \in SUBSET Mods /\ P!Good(n.hidp, f) /\ Lifted(n, x, f)

IInv == k.control = <<>> /\ \E f \in SUBSET Mods : Sound(k, NoCommand, f)

-----------------------------------------------------------------------------
(* HIDControl's operators of the input side are those of the proofs.       *)
LEMMA SameReports ==
    /\ \A mods, pressed : HID!KeyReport(mods, pressed) = P!KeyReport(mods, pressed)
    /\ \A s : HID!SendKeys(s) = P!SendKeys(s)
    /\ \A v : HID!Normalized(v) = P!Normalized(v)
    /\ \A s : HID!SendMouse(s) = P!SendMouse(s)
    /\ \A s, force : HID!HIDPSendReport(s, force) = P!HIDPSendReport(s, force)
<1>1. \A mods, pressed : HID!KeyReport(mods, pressed) = P!KeyReport(mods, pressed)
  BY DEF HID!KeyReport, P!KeyReport
<1>2. \A s : HID!SendKeys(s) = P!SendKeys(s)
  BY <1>1 DEF HID!SendKeys, P!SendKeys
<1>3. \A v : HID!Normalized(v) = P!Normalized(v)
  BY DEF HID!Normalized, P!Normalized
<1>4. \A s : HID!SendMouse(s) = P!SendMouse(s)
  BY <1>3 DEF HID!SendMouse, P!SendMouse
<1>5. \A s, force : HID!HIDPSendReport(s, force) = P!HIDPSendReport(s, force)
  BY <1>2, <1>4 DEF HID!HIDPSendReport, P!HIDPSendReport
<1>6. QED
  BY <1>1, <1>2, <1>3, <1>4, <1>5

LEMMA SameModifiers ==
    /\ \A mods : HID!Bits(mods) = P!Bits(mods)
    /\ \A s, m : HID!SetModifiers(s, m) = P!SetModifiers(s, m)
<1>1. \A mods, m : HID!Requested(mods, m) = P!Requested(mods, m)
  BY DEF HID!Requested, P!Requested, HID!Shifts, P!Shifts
<1>2. \A s, to, b : HID!Toggle(s, to, b) = P!Toggle(s, to, b)
  BY SameReports DEF HID!Toggle, P!Toggle
<1>3. \A s, to : HID!ToggleLeft(s, to) = P!ToggleLeft(s, to)
  BY <1>2 DEF HID!ToggleLeft, P!ToggleLeft
<1>4. \A s, to : HID!ToggleRight(s, to) = P!ToggleRight(s, to)
  BY <1>2 DEF HID!ToggleRight, P!ToggleRight
<1>5. \A s, m : HID!SetModifiers(s, m) = P!SetModifiers(s, m)
  BY <1>1, <1>3, <1>4 DEF HID!SetModifiers, P!SetModifiers
<1>6. QED
  BY <1>5 DEF HID!Bits, P!Bits

LEMMA SameLatchSteps ==
    /\ \A s : HID!Sticky(s) = P!Sticky(s)
    /\ \A s, a, b : HID!HIDPModifier(s, a, b) = P!HIDPModifier(s, a, b)
    /\ \A s : HID!NormalKey(s) = P!NormalKey(s)
    /\ \A s : HID!StickyTimer(s) = P!StickyTimer(s)
<1>1. \A s : HID!Sticky(s) = P!Sticky(s)
  BY DEF HID!Sticky, P!Sticky
<1>2. \A s, b : HID!ModifierPress(s, b) = P!ModifierPress(s, b)
  BY SameModifiers DEF HID!ModifierPress, P!ModifierPress
<1>3. \A s, b : HID!ModifierRelease(s, b) = P!ModifierRelease(s, b)
  BY SameModifiers DEF HID!ModifierRelease, P!ModifierRelease
<1>4. \A s, a, b : HID!HIDPModifier(s, a, b) = P!HIDPModifier(s, a, b)
  BY <1>2, <1>3 DEF HID!HIDPModifier, P!HIDPModifier
<1>5. \A s : HID!NormalKey(s) = P!NormalKey(s)
  BY <1>1, SameModifiers DEF HID!NormalKey, P!NormalKey
<1>6. \A s : HID!StickyTimer(s) = P!StickyTimer(s)
  BY <1>1, SameModifiers DEF HID!StickyTimer, P!StickyTimer
<1>7. QED
  BY <1>1, <1>4, <1>5, <1>6

LEMMA SameKeys ==
    /\ \A s, a, key, m : HID!HIDPKeyboard(s, a, key, m) = P!HIDPKeyboard(s, a, key, m)
    /\ \A s : HID!HIDPReset(s) = P!HIDPReset(s)
    /\ HID!NewHIDP = P!NewHIDP
<1>1. \A s, key : HID!KeyPressed(s, key) = P!KeyPressed(s, key)
  BY DEF HID!KeyPressed, P!KeyPressed
<1>2. \A s, key : HID!Press(s, key) = P!Press(s, key)
  BY <1>1, SameReports DEF HID!Press, P!Press
<1>3. \A keys, i : HID!Without(keys, i) = P!Without(keys, i)
  BY DEF HID!Without, P!Without
<1>4. \A s, key : HID!Release(s, key) = P!Release(s, key)
  BY <1>1, <1>3, SameReports DEF HID!Release, P!Release
<1>5. \A s, a, key : HID!Typed(s, a, key) = P!Typed(s, a, key)
  BY <1>2, <1>4 DEF HID!Typed, P!Typed
<1>6. \A s, a, key, m : HID!HIDPKeyboard(s, a, key, m) = P!HIDPKeyboard(s, a, key, m)
  BY <1>5, SameModifiers, SameLatchSteps DEF HID!HIDPKeyboard, P!HIDPKeyboard
<1>7. \A s : HID!HIDPReset(s) = P!HIDPReset(s)
  BY SameReports, SameModifiers DEF HID!HIDPReset, P!HIDPReset
<1>8. HID!NewHIDP = P!NewHIDP
  BY DEF HID!NewHIDP, P!NewHIDP
<1>9. QED
  BY <1>6, <1>7, <1>8

LEMMA InputAssumption == P!HIDPAssumption
<1>1. HID!ModCurrent \in P!MaskType /\ HID!ModCurrent.bits = {}
  BY DEF HID!ModCurrent, P!MaskType
<1>2. P!AllMods = HID!AllMods
  BY DEF HID!AllMods, P!AllMods
<1>3. 127 \in Nat \ {0} /\ 0 \in Nat
  OBVIOUS
<1>4. QED
  BY HIDControlAssumption, <1>1, <1>2, <1>3 DEF P!HIDPAssumption
-----------------------------------------------------------------------------
(* What a display shows of a modifier.                                     *)
Unseen(s, t, f) ==
    \A b \in Mods \ f : /\ t.modstate[b] = s.modstate[b]
                        /\ b \in t.modifiers <=> b \in s.modifiers

(* Modifiers that no finger holds and that are not sticky stay as they are *)
(* when a key is typed.                                                    *)
LEMMA NormalKeyUnseen ==
    ASSUME NEW s \in P!Call, NEW f, P!Latched(s, f), P!Sticky(s) = {}
    PROVE  Unseen(s, P!NormalKey(s), f)
<1> DEFINE st == [b \in Mods |->
                     CASE s.modstate[b] \in {"Pressed", "Sticky", "StickyPressed"} -> "Released"
                       [] s.modstate[b] = "LockedPressed" -> "Locked"
                       [] OTHER -> s.modstate[b]]
           u == [s EXCEPT !.modstate = st]
           t == P!NormalKey(s)
<1>1. s.modifiers \in SUBSET Mods /\ s.modstate \in [Mods -> P!ModStates]
  BY DEF P!Call
<1>2. ASSUME NEW b \in Mods PROVE st[b] \in P!ModStates
  BY <1>1, <1>2 DEF P!ModStates
<1>3. st \in [Mods -> P!ModStates]
  BY <1>2
<1>4. ASSUME NEW b \in Mods \ f PROVE st[b] = s.modstate[b]
  <2>1. P!Consistent(s.modstate[b], b \in s.modifiers, b \in f)
    BY <1>4 DEF P!Latched
  <2>2. s.modstate[b] # "Sticky"
    BY <1>4 DEF P!Sticky
  <2>3. s.modstate[b] \in {"Released", "Locked"}
    BY <1>4, <2>1, <2>2 DEF P!Consistent
  <2>4. QED
    BY <2>3
<1>5. t = P!SetModifiers(u, P!Bits(s.modifiers))
  BY DEF P!NormalKey
<1> HIDE DEF st
<1>6. u \in P!Call /\ u.modstate = st /\ u.modifiers = s.modifiers
  BY <1>1, <1>3 DEF P!Call
<1> HIDE DEF u, t
<1>7. P!Requested(u.modifiers, P!Bits(s.modifiers)) = s.modifiers
  BY DEF P!Requested, P!Bits
<1>8. t.modstate = st /\ t.modifiers = s.modifiers
  BY <1>1, <1>5, <1>6, <1>7, InputAssumption, P!SetModifiersStep DEF P!SameLatches
<1>9. QED
  BY <1>4, <1>8 DEF Unseen, t

(* HIDPKeyboard: a stroke of a key without a sticky modifier, or just its  *)
(* press, is not seen on the buttons of modifiers.                         *)
LEMMA StrokeFacts ==
    ASSUME NEW s, NEW f, P!Good(s, f), NEW a \in P!Actions, NEW key \in Keys,
           NEW t, t = HID!HIDPKeyboard(s, a, key, HID!ModCurrent)
    PROVE  /\ P!Good(t, f)
           /\ a = "Press" \/ HID!Sticky(s) = {} => Unseen(s, t, f)
<1> DEFINE m == HID!ModCurrent
           set == P!SetModifiers(s, m)
           typed == P!Typed(set, a, key)
           restored == P!SetModifiers(typed, P!Bits(s.modifiers))
<1>1. s \in P!Call /\ P!Latched(s, f) /\ P!Timed(s) /\ s.modifiers \in SUBSET Mods
  BY DEF P!Good, P!Call
<1>2. m \in {HID!ModCurrent} /\ m.current
  BY DEF HID!ModCurrent
<1>3. t = P!HIDPKeyboard(s, a, key, m)
  BY SameKeys
<1>4. P!Latches(s, P!HIDPKeyboard(s, a, key, m), f, f)
  BY <1>1, <1>2, InputAssumption, P!HIDPKeyboardStep
<1>5. t = IF a = "Press" THEN restored ELSE P!NormalKey(restored)
  BY <1>2, <1>3 DEF P!HIDPKeyboard
<1>6. P!Reports(s, set)
  <2>1. P!Requested(s.modifiers, m) \in SUBSET Mods
    BY <1>1, <1>2, InputAssumption, P!RequestedType
  <2>2. QED
    BY <1>1, <2>1, InputAssumption, P!SetModifiersReports
<1>7. P!Reports(set, typed)
  BY <1>6, InputAssumption, P!TypedStep DEF P!Reports
<1>8. P!Reports(typed, restored) /\ restored.modifiers = s.modifiers
  <2>1. P!Requested(typed.modifiers, P!Bits(s.modifiers)) = s.modifiers
    BY DEF P!Requested, P!Bits
  <2>2. typed \in P!Call
    BY <1>7 DEF P!Reports
  <2>3. QED
    BY <1>1, <2>1, <2>2, InputAssumption, P!SetModifiersReports
<1> HIDE DEF m, set, typed, restored
<1>9. restored \in P!Call /\ restored.modstate = s.modstate /\ restored.modtimer = s.modtimer
  BY <1>6, <1>7, <1>8 DEF P!Reports, P!SameLatches
<1>10. P!Good(t, f)
  BY <1>1, <1>3, <1>4 DEF P!Latches, P!Good
<1>11. ASSUME a = "Press" PROVE Unseen(s, t, f)
  BY <1>5, <1>8, <1>9, <1>11 DEF Unseen
<1>12. ASSUME a # "Press", HID!Sticky(s) = {} PROVE Unseen(s, t, f)
  <2>1. P!Sticky(restored) = {}
    BY <1>9, <1>12, SameLatchSteps DEF P!Sticky
  <2>2. P!Latched(restored, f)
    BY <1>1, <1>8, <1>9 DEF P!Latched
  <2>3. Unseen(restored, P!NormalKey(restored), f)
    BY <1>9, <2>1, <2>2, NormalKeyUnseen
  <2>4. QED
    BY <1>5, <1>8, <1>9, <1>12, <2>3 DEF Unseen
<1>13. QED
  BY <1>10, <1>11, <1>12

(* HIDPKeyboard for a modifier.                                            *)
LEMMA ModifierFacts ==
    ASSUME NEW s, NEW f \in SUBSET Mods, P!Good(s, f), NEW a \in P!Actions, NEW b \in Mods
    PROVE  P!Good(HID!HIDPModifier(s, a, b), IF a = "Press" THEN f \cup {b} ELSE f \ {b})
<1>1. s \in P!Call /\ P!Latched(s, f) /\ P!Timed(s)
  BY DEF P!Good
<1>2. P!Latches(s, P!HIDPModifier(s, a, b), f, IF a = "Press" THEN f \cup {b} ELSE f \ {b})
  BY <1>1, InputAssumption, P!HIDPModifierStep
<1>3. QED
  BY <1>1, <1>2, SameLatchSteps DEF P!Latches, P!Good

LEMMA TimerFacts ==
    ASSUME NEW s, NEW f, P!Good(s, f), NEW t, t = HID!StickyTimer(s)
    PROVE  P!Good(t, f) /\ (HID!Sticky(s) = {} => Unseen(s, t, f))
<1> DEFINE st == [b \in Mods |-> IF s.modstate[b] = "Sticky" THEN "Released" ELSE s.modstate[b]]
           u == [s EXCEPT !.modtimer = 0, !.modstate = st]
<1>1. s \in P!Call /\ P!Latched(s, f) /\ P!Timed(s) /\ s.modifiers \in SUBSET Mods
      /\ s.modstate \in [Mods -> P!ModStates]
  BY DEF P!Good, P!Call
<1>2. t = P!StickyTimer(s)
  BY SameLatchSteps
<1>3. P!Latches(s, P!StickyTimer(s), f, f)
  BY <1>1, InputAssumption, P!StickyTimerStep
<1>4. ASSUME HID!Sticky(s) = {} PROVE Unseen(s, t, f)
  <2>1. P!Sticky(s) = {}
    BY <1>4, SameLatchSteps
  <2>2. st = s.modstate
    BY <1>1, <2>1 DEF P!Sticky
  <2>3. t = P!SetModifiers(u, P!Bits(s.modifiers))
    BY <1>2, <2>1 DEF P!StickyTimer
  <2> HIDE DEF st
  <2>4. u \in P!Call /\ u.modstate = s.modstate /\ u.modifiers = s.modifiers
    <3>1. 0 \in 0 .. StickyTime
      BY InputAssumption DEF P!HIDPAssumption
    <3>2. QED
      BY <1>1, <2>2, <3>1 DEF P!Call
  <2> HIDE DEF u
  <2>5. P!Requested(u.modifiers, P!Bits(s.modifiers)) = s.modifiers
    BY DEF P!Requested, P!Bits
  <2>6. t.modstate = u.modstate /\ t.modifiers = s.modifiers
    BY <1>1, <2>3, <2>4, <2>5, InputAssumption, P!SetModifiersStep DEF P!SameLatches
  <2>7. QED
    BY <2>4, <2>6 DEF Unseen
<1>5. QED
  BY <1>1, <1>2, <1>3, <1>4 DEF P!Latches, P!Good

LEMMA ResetFacts ==
    ASSUME NEW s, NEW f, P!Good(s, f)
    PROVE  P!Good(HID!HIDPReset(s), f)
<1>1. s \in P!Call /\ P!Latched(s, f) /\ P!Timed(s)
  BY DEF P!Good
<1>2. P!Latches(s, P!HIDPReset(s), f, f)
  BY <1>1, InputAssumption, P!HIDPResetStep
<1>3. QED
  BY <1>1, <1>2, SameKeys DEF P!Latches, P!Good

LEMMA MotionFacts ==
    ASSUME NEW s, NEW f, P!Good(s, f), NEW t, t = HID!SendMouse(s)
    PROVE  P!Good(t, f) /\ Unseen(s, t, f)
<1>1. s \in P!Call /\ P!Latched(s, f) /\ P!Timed(s)
  BY DEF P!Good
<1>2. t = P!SendMouse(s)
  BY SameReports
<1>3. t \in P!Call /\ t.modstate = s.modstate /\ t.modtimer = s.modtimer
      /\ t.modifiers = s.modifiers
  BY <1>1, <1>2, InputAssumption, P!SendMouseStep DEF P!SameLatches
<1>4. QED
  BY <1>1, <1>3 DEF P!Good, P!Latched, P!Timed, P!Sticky, Unseen

LEMMA ClockFacts ==
    ASSUME NEW s, NEW f, P!Good(s, f), s.modtimer > 0, s.modtimer # 1,
           NEW t, t = [s EXCEPT !.modtimer = @ - 1]
    PROVE  P!Good(t, f) /\ Unseen(s, t, f)
<1>1. s \in P!Call /\ P!Latched(s, f) /\ P!Timed(s) /\ s.modtimer \in 0 .. StickyTime
      /\ StickyTime \in Nat
  BY InputAssumption DEF P!Good, P!Call, P!HIDPAssumption
<1>2. s.modtimer - 1 \in 0 .. StickyTime /\ s.modtimer - 1 > 0
  BY <1>1
<1>3. t \in P!Call /\ t.modstate = s.modstate /\ t.modtimer = s.modtimer - 1
      /\ t.modifiers = s.modifiers
  BY <1>1, <1>2 DEF P!Call
<1>4. QED
  BY <1>1, <1>2, <1>3 DEF P!Good, P!Latched, P!Timed, P!Sticky, Unseen

(* The reports of a call are delivered.                                    *)
LEMMA QuietFacts ==
    ASSUME NEW s, NEW f, P!Good(s, f), NEW t, t = [s EXCEPT !.keyboard = <<>>, !.mouse = <<>>]
    PROVE  P!Good(t, f) /\ Unseen(s, t, f) /\ t.modifiers = s.modifiers /\ t.pressed = s.pressed
<1>1. s \in P!Call /\ P!Latched(s, f) /\ P!Timed(s)
  BY DEF P!Good
<1>2. <<>> \in Seq(P!ReportType) /\ <<>> \in Seq(P!MouseReport)
  OBVIOUS
<1>3. t \in P!Call /\ t.modstate = s.modstate /\ t.modtimer = s.modtimer
      /\ t.modifiers = s.modifiers /\ t.pressed = s.pressed
  BY <1>1, <1>2 DEF P!Call
<1>4. QED
  BY <1>1, <1>3 DEF P!Good, P!Latched, P!Timed, P!Sticky, Unseen
-----------------------------------------------------------------------------
(* The commands.                                                           *)
LEMMA CommandFacts ==
    ASSUME NEW c \in Commands
    PROVE  /\ c.cmd \in {"ModifiersChanged", "LedsChanged", "ResetHIDState", "UnplugReceived",
                         "SwitchForms", "SwitchScreens", "Select", "Keyboard", "HardKey"}
           /\ c.cmd = "Select" => c.screen \in Screens
           /\ c.cmd = "Keyboard" => c.action = "Click" /\ c.key \in Mods \cup Keys
           /\ c.cmd = "HardKey" => /\ c.action \in {"Press", "Release"}
                                   /\ c.key \in Mods \cup {"Hard1", "Hard2"}
  BY DEF Commands

LEMMA PlainCommands ==
    ASSUME NEW v \in {"ModifiersChanged", "LedsChanged", "ResetHIDState", "UnplugReceived",
                      "SwitchForms", "SwitchScreens"}
    PROVE  [cmd |-> v] \in Commands
  BY DEF Commands

LEMMA NothingNow ==
    /\ NoCommand \notin Selects
    /\ \A e : NoCommand \notin LightsLater(e)
    /\ \A b : NoCommand \notin ModsLater(b) /\ NoCommand \notin Presses(b) /\ NoCommand \notin Lifts(b)
  BY DEF NoCommand, Selects, LightsLater, ModsLater, Presses, Lifts

(* More commands wait, none of them that a hard key went down.             *)
Longer(c, d) ==
    /\ c \in Seq(Commands) /\ d \in Seq(Commands) /\ Len(c) <= Len(d)
    /\ \A i \in 1 .. Len(c) : d[i] = c[i]
    /\ \A i \in 1 .. Len(d) : \A b \in Mods : i > Len(c) => d[i] \notin Presses(b)

LEMMA Unchanged == ASSUME NEW c \in Seq(Commands) PROVE Longer(c, c)
  BY DEF Longer

LEMMA LongerLonger ==
    ASSUME NEW c, NEW d, NEW e, Longer(c, d), Longer(d, e)
    PROVE  Longer(c, e)
<1>1. /\ c \in Seq(Commands) /\ d \in Seq(Commands) /\ e \in Seq(Commands)
      /\ Len(c) <= Len(d) /\ Len(d) <= Len(e)
      /\ \A i \in 1 .. Len(c) : d[i] = c[i]
      /\ \A i \in 1 .. Len(d) : e[i] = d[i]
      /\ \A i \in 1 .. Len(d) : \A b \in Mods : i > Len(c) => d[i] \notin Presses(b)
      /\ \A i \in 1 .. Len(e) : \A b \in Mods : i > Len(d) => e[i] \notin Presses(b)
  BY DEF Longer
<1>2. Len(c) \in Nat /\ Len(d) \in Nat /\ Len(e) \in Nat
  BY <1>1
<1>3. Len(c) <= Len(e)
  BY <1>1, <1>2
<1>4. ASSUME NEW i \in 1 .. Len(c) PROVE e[i] = c[i]
  BY <1>1, <1>2, <1>4
<1>5. ASSUME NEW i \in 1 .. Len(e), NEW b \in Mods, i > Len(c) PROVE e[i] \notin Presses(b)
  <2>1. CASE i > Len(d)
    BY <1>1, <1>5, <2>1
  <2>2. CASE ~ (i > Len(d))
    <3>1. i \in 1 .. Len(d)
      BY <1>2, <1>5, <2>2
    <3>2. QED
      BY <1>1, <1>5, <3>1
  <2>3. QED
    BY <2>1, <2>2
<1>6. QED
  BY <1>1, <1>3, <1>4, <1>5 DEF Longer

LEMMA OneMore ==
    ASSUME NEW c \in Seq(Commands), NEW x \in Commands, \A b \in Mods : x \notin Presses(b)
    PROVE  Longer(c, Append(c, x)) /\ \A C : x \in C => Has(Append(c, x), C)
<1>1. /\ Append(c, x) \in Seq(Commands) /\ Len(Append(c, x)) = Len(c) + 1 /\ Len(c) \in Nat
      /\ \A i \in 1 .. Len(c) : Append(c, x)[i] = c[i]
      /\ Append(c, x)[Len(c) + 1] = x
  OBVIOUS
<1>2. ASSUME NEW i \in 1 .. Len(Append(c, x)), i > Len(c) PROVE Append(c, x)[i] = x
  <2>1. i = Len(c) + 1
    BY <1>1, <1>2
  <2>2. QED
    BY <1>1, <2>1
<1>3. Len(c) <= Len(Append(c, x)) /\ Len(c) + 1 \in 1 .. Len(Append(c, x))
  BY <1>1
<1>4. QED
  BY <1>1, <1>2, <1>3 DEF Longer, Has

LEMMA HasLonger == ASSUME NEW c, NEW d, Longer(c, d), NEW C, Has(c, C) PROVE Has(d, C)
<1>1. PICK i \in 1 .. Len(c) : c[i] \in C
  BY DEF Has
<1>2. /\ Len(c) \in Nat /\ Len(d) \in Nat /\ Len(c) <= Len(d) /\ d[i] = c[i]
  BY DEF Longer
<1>3. i \in 1 .. Len(d) /\ d[i] \in C
  BY <1>1, <1>2
<1>4. QED
  BY <1>3 DEF Has

LEMMA HasTail ==
    ASSUME NEW c \in Seq(Commands), c # <<>>, NEW C
    PROVE  Has(c, C) <=> Head(c) \in C \/ Has(Tail(c), C)
<1>1. /\ Len(c) \in Nat /\ Len(c) > 0 /\ Len(Tail(c)) = Len(c) - 1
      /\ \A i \in 1 .. Len(c) - 1 : Tail(c)[i] = c[i + 1]
      /\ Head(c) = c[1]
  OBVIOUS
<1>2. ASSUME Has(c, C) PROVE Head(c) \in C \/ Has(Tail(c), C)
  <2>1. PICK i \in 1 .. Len(c) : c[i] \in C
    BY <1>2 DEF Has
  <2>2. CASE i = 1
    BY <1>1, <2>1, <2>2
  <2>3. CASE i # 1
    <3>1. i - 1 \in 1 .. Len(Tail(c)) /\ Tail(c)[i - 1] = c[i]
      BY <1>1, <2>3
    <3>2. QED
      BY <2>1, <3>1 DEF Has
  <2>4. QED
    BY <2>2, <2>3
<1>3. ASSUME Head(c) \in C PROVE Has(c, C)
  BY <1>1, <1>3 DEF Has
<1>4. ASSUME Has(Tail(c), C) PROVE Has(c, C)
  <2>1. PICK i \in 1 .. Len(Tail(c)) : Tail(c)[i] \in C
    BY <1>4 DEF Has
  <2>2. i + 1 \in 1 .. Len(c) /\ c[i + 1] = Tail(c)[i]
    BY <1>1
  <2>3. QED
    BY <2>1, <2>2 DEF Has
<1>5. QED
  BY <1>2, <1>3, <1>4

(* A command is taken from the queue and is handled next.                  *)
LEMMA Taken ==
    ASSUME NEW n, NEW f, Sound(n, NoCommand, f), n.cmds # <<>>,
           NEW u, u = [n EXCEPT !.cmds = Tail(@)]
    PROVE  Sound(u, Head(n.cmds), f) /\ Head(n.cmds) \in Commands /\ u.control = n.control
<1> DEFINE x == Head(n.cmds)
<1>1. n \in Worlds(n.control) /\ n.cmds \in Seq(Commands)
  BY DEF Sound, Typed, Worlds
<1>2. x \in Commands /\ Tail(n.cmds) \in Seq(Commands)
  BY <1>1
<1>3. /\ u \in Worlds(u.control) /\ u.control = n.control /\ u.cmds = Tail(n.cmds)
  BY <1>1, <1>2 DEF Worlds
<1>4. /\ u.form = n.form /\ u.open = n.open /\ u.screen = n.screen /\ u.visible = n.visible
      /\ u.pushed = n.pushed /\ u.held = n.held /\ u.missed = n.missed /\ u.plain = n.plain
      /\ u.value = n.value /\ u.label = n.label /\ u.state = n.state /\ u.reset = n.reset
      /\ u.leds = n.leds /\ u.hidp = n.hidp
  BY <1>1 DEF Worlds
<1> HIDE DEF x
<1>5. ASSUME NEW C, NoCommand \notin C PROVE Soon(n, NoCommand, C) <=> Soon(u, x, C)
  BY <1>1, <1>3, <1>5, HasTail DEF Soon, x
<1>6. Screened(u, x)
  BY <1>4, <1>5, NothingNow DEF Sound, Screened, ScreenRight, Faces
<1>7. Lit(u, x)
  BY <1>4, <1>5, NothingNow DEF Sound, Lit, LightsRight, Faces
<1>8. Stated(u)
  BY <1>4 DEF Sound, Stated
<1>9. Modified(u, x, f)
  <2>1. \A e \in ModButtons : Right(n, e) => Right(u, e)
    BY <1>4 DEF Right, HIDPModifiers, HIDPModifierState
  <2>2. \A e \in ModButtons : Soon(n, NoCommand, ModsLater(e.key)) => Soon(u, x, ModsLater(e.key))
    BY <1>5, NothingNow
  <2>3. ModsRight(n, NoCommand, f) => ModsRight(u, x, f)
    BY <1>4, <2>1, <2>2 DEF ModsRight
  <2>4. QED
    BY <1>4, <2>3 DEF Sound, Modified, Faces
<1>10. Lifted(u, x, f)
  <2>1. Lifted(n, NoCommand, f)
    BY DEF Sound
  <2>2. /\ Len(n.cmds) \in Nat /\ Len(n.cmds) > 0 /\ Len(u.cmds) = Len(n.cmds) - 1
        /\ \A i \in 1 .. Len(n.cmds) - 1 : u.cmds[i] = n.cmds[i + 1]
        /\ x = n.cmds[1]
    BY <1>1, <1>3 DEF x
  <2> SUFFICES ASSUME NEW b \in Mods \ u.held
               PROVE  /\ b \in f => Soon(u, x, Lifts(b))
                      /\ x \in Presses(b) => Has(u.cmds, Lifts(b))
                      /\ \A i \in 1 .. Len(u.cmds) : u.cmds[i] \in Presses(b) =>
                             \E j \in 1 .. Len(u.cmds) : i < j /\ u.cmds[j] \in Lifts(b)
    BY DEF Lifted
  <2>3. \A i \in 1 .. Len(n.cmds) : n.cmds[i] \in Presses(b) =>
            \E j \in 1 .. Len(n.cmds) : i < j /\ n.cmds[j] \in Lifts(b)
    BY <1>4, <2>1 DEF Lifted
  <2>4. b \in f => Soon(u, x, Lifts(b))
    BY <1>4, <1>5, <2>1, NothingNow DEF Lifted
  <2>5. ASSUME x \in Presses(b) PROVE Has(u.cmds, Lifts(b))
    <3>1. 1 \in 1 .. Len(n.cmds)
      BY <2>2
    <3>2. PICK j \in 1 .. Len(n.cmds) : 1 < j /\ n.cmds[j] \in Lifts(b)
      BY <2>2, <2>3, <2>5, <3>1
    <3>3. j - 1 \in 1 .. Len(u.cmds) /\ u.cmds[j - 1] = n.cmds[j]
      BY <2>2, <3>2
    <3>4. QED
      BY <3>2, <3>3 DEF Has
  <2>6. ASSUME NEW i \in 1 .. Len(u.cmds), u.cmds[i] \in Presses(b)
        PROVE  \E j \in 1 .. Len(u.cmds) : i < j /\ u.cmds[j] \in Lifts(b)
    <3>1. i + 1 \in 1 .. Len(n.cmds) /\ n.cmds[i + 1] \in Presses(b)
      BY <2>2, <2>6
    <3>2. PICK j \in 1 .. Len(n.cmds) : i + 1 < j /\ n.cmds[j] \in Lifts(b)
      BY <2>3, <3>1
    <3>3. j - 1 \in 1 .. Len(u.cmds) /\ u.cmds[j - 1] = n.cmds[j] /\ i < j - 1
      BY <2>2, <2>6, <3>2
    <3>4. QED
      BY <3>2, <3>3
  <2>7. QED
    BY <2>4, <2>5, <2>6
<1>11. f \in SUBSET Mods /\ P!Good(u.hidp, f)
  BY <1>4 DEF Sound
<1>12. QED
  BY <1>2, <1>3, <1>6, <1>7, <1>8, <1>9, <1>10, <1>11 DEF Sound, Typed, x
-----------------------------------------------------------------------------
(* What changes behind the form.                                           *)
SameForm(n, u) ==
    /\ u.form = n.form /\ u.goal = n.goal /\ u.open = n.open /\ u.screen = n.screen
    /\ u.visible = n.visible /\ u.pushed = n.pushed /\ u.plain = n.plain
    /\ u.value = n.value /\ u.label = n.label /\ u.state = n.state
    /\ u.missed = n.missed /\ u.held = n.held

(* The command x has been handled, which left u, and g are the fingers.    *)
LEMMA Behind ==
    ASSUME NEW n, NEW x, NEW f, Sound(n, x, f),
           NEW u, Typed(u), NEW g \in SUBSET Mods, P!Good(u.hidp, g),
           SameForm(n, u), Longer(n.cmds, u.cmds), n.reset \subseteq u.reset,
           x \notin Selects,
           \/ "leds" \in u.reset
           \/ \A key \in Leds : \/ Has(u.cmds, LightsLater(key))
                                \/ u.leds = n.leds /\ x \notin LightsLater(key),
           \/ "mods" \in u.reset
           \/ \E c \in Commands : c.cmd = "ModifiersChanged" /\ Has(u.cmds, {c})
           \/ Unseen(n.hidp, u.hidp, f) /\ f = g /\ \A b \in Mods : x \notin ModsLater(b),
           \A b \in Mods : b \in g => (b \in f \/ x \in Presses(b)) /\ x \notin Lifts(b)
    PROVE  Sound(u, NoCommand, g)
<1>1. \A C : Has(n.cmds, C) => Has(u.cmds, C)
  BY HasLonger
<1>2. Screened(u, NoCommand)
  BY <1>1 DEF Sound, SameForm, Screened, ScreenRight, Faces, Soon
<1>3. Lit(u, NoCommand)
  <2> SUFFICES ASSUME Faces(u), "leds" \notin u.reset PROVE LightsRight(u, NoCommand)
    BY DEF Lit
  <2>1. LightsRight(n, x)
    BY DEF Sound, Lit, Faces, SameForm
  <2>2. ASSUME NEW e \in On(u.screen) \cap LedButtons
        PROVE  u.value[e] = (e.key \in u.leds) \/ Soon(u, NoCommand, LightsLater(e.key))
    <3>1. e.key \in Leds
      BY DEF LedButtons
    <3>2. CASE Has(u.cmds, LightsLater(e.key))
      BY <3>2 DEF Soon
    <3>3. CASE u.leds = n.leds /\ x \notin LightsLater(e.key)
      BY <1>1, <2>1, <3>3 DEF LightsRight, Soon, SameForm
    <3>4. QED
      BY <3>1, <3>2, <3>3
  <2>3. QED
    BY <2>2 DEF LightsRight
<1>4. Stated(u)
  BY DEF Sound, Stated, SameForm
<1>5. Modified(u, NoCommand, g)
  <2> SUFFICES ASSUME Faces(u), "mods" \notin u.reset PROVE ModsRight(u, NoCommand, g)
    BY DEF Modified
  <2>1. ModsRight(n, x, f)
    BY DEF Sound, Modified, Faces, SameForm
  <2>2. ASSUME NEW c \in Commands, c.cmd = "ModifiersChanged", Has(u.cmds, {c})
        PROVE  ModsRight(u, NoCommand, g)
    <3>1. \A b : c \in ModsLater(b)
      BY <2>2 DEF ModsLater
    <3>2. \A b : Has(u.cmds, ModsLater(b))
      BY <2>2, <3>1 DEF Has
    <3>3. QED
      BY <3>2 DEF ModsRight, Soon
  <2>3. ASSUME Unseen(n.hidp, u.hidp, f), f = g, \A b \in Mods : x \notin ModsLater(b)
        PROVE  ModsRight(u, NoCommand, g)
    <3> SUFFICES ASSUME NEW e \in ModButtons \ u.missed, e.key \notin g,
                        ~ Soon(u, NoCommand, ModsLater(e.key))
                 PROVE  Right(u, e)
      BY DEF ModsRight
    <3>1. e.key \in Mods
      BY DEF ModButtons
    <3>2. ~ Soon(n, x, ModsLater(e.key))
      BY <1>1, <2>3, <3>1 DEF Soon
    <3>3. Right(n, e)
      BY <2>1, <2>3, <3>2 DEF ModsRight, SameForm
    <3>4. /\ u.hidp.modstate[e.key] = n.hidp.modstate[e.key]
          /\ e.key \in u.hidp.modifiers <=> e.key \in n.hidp.modifiers
      BY <2>3, <3>1 DEF Unseen
    <3>5. QED
      BY <3>1, <3>3, <3>4 DEF Right, HIDPModifiers, HIDPModifierState, SameForm
  <2>4. QED
    BY <2>2, <2>3
<1>6. Lifted(u, NoCommand, g)
  <2>1. Lifted(n, x, f) /\ u.held = n.held
    BY DEF Sound, SameForm
  <2>2. /\ Len(n.cmds) \in Nat /\ Len(u.cmds) \in Nat /\ Len(n.cmds) <= Len(u.cmds)
        /\ \A i \in 1 .. Len(n.cmds) : u.cmds[i] = n.cmds[i]
        /\ \A i \in 1 .. Len(u.cmds) : \A b \in Mods : i > Len(n.cmds) => u.cmds[i] \notin Presses(b)
    BY DEF Longer
  <2> SUFFICES ASSUME NEW b \in Mods \ u.held
               PROVE  /\ b \in g => Soon(u, NoCommand, Lifts(b))
                      /\ NoCommand \in Presses(b) => Has(u.cmds, Lifts(b))
                      /\ \A i \in 1 .. Len(u.cmds) : u.cmds[i] \in Presses(b) =>
                             \E j \in 1 .. Len(u.cmds) : i < j /\ u.cmds[j] \in Lifts(b)
    BY DEF Lifted
  <2>3. /\ b \in f => Soon(n, x, Lifts(b))
        /\ x \in Presses(b) => Has(n.cmds, Lifts(b))
        /\ \A i \in 1 .. Len(n.cmds) : n.cmds[i] \in Presses(b) =>
               \E j \in 1 .. Len(n.cmds) : i < j /\ n.cmds[j] \in Lifts(b)
    BY <2>1 DEF Lifted
  <2>4. b \in g => Soon(u, NoCommand, Lifts(b))
    BY <1>1, <2>3 DEF Soon
  <2>5. ASSUME NEW i \in 1 .. Len(u.cmds), u.cmds[i] \in Presses(b)
        PROVE  \E j \in 1 .. Len(u.cmds) : i < j /\ u.cmds[j] \in Lifts(b)
    <3>1. i \in 1 .. Len(n.cmds) /\ n.cmds[i] \in Presses(b)
      BY <2>2, <2>5
    <3>2. PICK j \in 1 .. Len(n.cmds) : i < j /\ n.cmds[j] \in Lifts(b)
      BY <2>3, <3>1
    <3>3. j \in 1 .. Len(u.cmds) /\ u.cmds[j] = n.cmds[j]
      BY <2>2, <3>2
    <3>4. QED
      BY <3>2, <3>3
  <2>6. QED
    BY <2>4, <2>5, NothingNow
<1>7. QED
  BY <1>2, <1>3, <1>4, <1>5, <1>6 DEF Sound

(* The fields that a function of HIDControl leaves alone, but for those of *)
(* the input side, the commands and what is sent.                          *)
SameHost(n, u) ==
    /\ u.leds = n.leds /\ u.suspended = n.suspended /\ u.bootProtocol = n.bootProtocol
    /\ u.idleRate = n.idleRate /\ u.reset = n.reset

LEMMA EnqueueFacts ==
    ASSUME NEW n, Typed(n), NEW c \in Commands, \A b \in Mods : c \notin Presses(b),
           NEW u, u = Enqueue(n, c)
    PROVE  /\ Typed(u) /\ SameForm(n, u) /\ SameHost(n, u) /\ u.control = n.control
           /\ u.hidp = n.hidp /\ Longer(n.cmds, u.cmds) /\ Has(u.cmds, {c})
           /\ \A C : c \in C => Has(u.cmds, C)
<1>1. n \in Worlds(n.control) /\ n.cmds \in Seq(Commands)
  BY DEF Typed, Worlds
<1>2. Append(n.cmds, c) \in Seq(Commands)
  BY <1>1
<1>3. u = [n EXCEPT !.cmds = Append(n.cmds, c)]
  BY DEF Enqueue
<1>4. u \in Worlds(u.control) /\ u.cmds = Append(n.cmds, c) /\ u.control = n.control
      /\ u.hidp = n.hidp
  BY <1>1, <1>2, <1>3 DEF Worlds
<1>5. SameForm(n, u) /\ SameHost(n, u)
  BY <1>1, <1>3 DEF Worlds, SameForm, SameHost
<1>6. QED
  BY <1>1, <1>4, <1>5, OneMore DEF Typed

(* u is n with an input side that is s, for the fingers g.                 *)
Brings(n, s, g, u) ==
    /\ Typed(u) /\ SameForm(n, u) /\ SameHost(n, u) /\ u.control = n.control
    /\ u.cmds = n.cmds /\ P!Good(u.hidp, g) /\ Unseen(s, u.hidp, g)
    /\ u.hidp.modifiers = s.modifiers /\ u.hidp.pressed = s.pressed

LEMMA InputFacts ==
    ASSUME NEW n, Typed(n), NEW s, NEW g, P!Good(s, g), NEW u, u = Input(n, s)
    PROVE  Brings(n, s, g, u)
<1> DEFINE t == [s EXCEPT !.keyboard = <<>>, !.mouse = <<>>]
<1>1. n \in Worlds(n.control)
  BY DEF Typed
<1>2. P!Good(t, g) /\ Unseen(s, t, g) /\ t.modifiers = s.modifiers /\ t.pressed = s.pressed
  BY QuietFacts
<1>3. u = [n EXCEPT !.hidp = t]
  BY DEF Input
<1> HIDE DEF t
<1>4. t \in P!Call
  BY <1>2 DEF P!Good
<1>5. u \in Worlds(u.control) /\ u.cmds = n.cmds /\ u.control = n.control /\ u.hidp = t
  BY <1>1, <1>3, <1>4 DEF Worlds
<1>6. SameForm(n, u) /\ SameHost(n, u)
  BY <1>1, <1>3 DEF Worlds, SameForm, SameHost
<1>7. QED
  BY <1>2, <1>5, <1>6 DEF Typed, Brings
-----------------------------------------------------------------------------
(* Commands that come down to a key.                                       *)
LEMMA ActionNames == P!Actions = {"Press", "Release", "Click", "DoubleClick"}
  BY DEF P!Actions

LEMMA KindFacts ==
    ASSUME NEW x \in Commands
    PROVE  /\ x.cmd # "Select" => x \notin Selects
           /\ x.cmd \notin {"LedsChanged", "Keyboard"} => \A e : x \notin LightsLater(e)
           /\ x.cmd \notin {"ModifiersChanged", "Keyboard", "HardKey"} => \A b : x \notin ModsLater(b)
           /\ x.cmd # "HardKey" => \A b : x \notin Presses(b) /\ x \notin Lifts(b)
           /\ x.cmd \in {"Keyboard", "HardKey"} =>
                  \A b : x.key # b => /\ x \notin LightsLater(b) \/ x.cmd # "Keyboard"
                                      /\ x \notin ModsLater(b)
                                      /\ x \notin Presses(b) /\ x \notin Lifts(b)
           /\ x.cmd = "Keyboard" => \A b : x.key # b => x \notin LightsLater(b)
           /\ x.cmd = "HardKey" /\ x.action # "Release" => \A b : x \notin Lifts(b)
           /\ x.cmd = "HardKey" /\ x.action = "Press" => x \in Presses(x.key)
  BY DEF Selects, LightsLater, ModsLater, Presses, Lifts

LEMMA NewsFacts ==
    /\ ModifiersChanged \in Commands /\ ModifiersChanged.cmd = "ModifiersChanged"
    /\ LedsChanged \in Commands /\ LedsChanged.cmd = "LedsChanged"
    /\ ResetHIDState \in Commands /\ ResetHIDState.cmd = "ResetHIDState"
    /\ UnplugReceived \in Commands /\ UnplugReceived.cmd = "UnplugReceived"
  BY PlainCommands DEF ModifiersChanged, LedsChanged, ResetHIDState, UnplugReceived

LEMMA ModifierHandled ==
    ASSUME NEW n, NEW f, NEW x \in Commands, Sound(n, x, f),
           x.cmd \in {"Keyboard", "HardKey"}, x.key \in Mods,
           NEW u, u = Keyboard(n, x.action, x.key, HID!ModCurrent)
    PROVE  u.control = n.control /\ \E g \in SUBSET Mods : Sound(u, NoCommand, g)
<1> DEFINE b == x.key
           a == x.action
           g == IF a = "Press" THEN f \cup {b} ELSE f \ {b}
           v == Enqueue(n, ModifiersChanged)
           s == HID!HIDPModifier(n.hidp, a, b)
<1>1. Typed(n) /\ f \in SUBSET Mods /\ P!Good(n.hidp, f)
  BY DEF Sound
<1>2. a \in {"Press", "Release", "Click"} /\ (a = "Press" => x.cmd = "HardKey")
  BY CommandFacts
<1>3. P!Good(s, g)
  BY <1>1, <1>2, ActionNames, ModifierFacts
<1>4. u = Input(v, s)
  BY DEF Keyboard
<1>5. /\ Typed(v) /\ SameForm(n, v) /\ SameHost(n, v) /\ v.control = n.control
      /\ Longer(n.cmds, v.cmds) /\ Has(v.cmds, {ModifiersChanged})
  BY <1>1, NewsFacts, KindFacts, EnqueueFacts
<1>6. g \in SUBSET Mods
  BY <1>1
<1>7. \A c \in Mods : c \in g => (c \in f \/ x \in Presses(c)) /\ x \notin Lifts(c)
  <2> SUFFICES ASSUME NEW c \in Mods, c \in g PROVE (c \in f \/ x \in Presses(c)) /\ x \notin Lifts(c)
    OBVIOUS
  <2>1. CASE c = b
    <3>1. a = "Press" /\ x.cmd = "HardKey"
      BY <1>2, <2>1
    <3>2. QED
      BY <2>1, <3>1, KindFacts
  <2>2. CASE c # b
    BY <2>2, KindFacts
  <2>3. QED
    BY <2>1, <2>2
<1>8. \A key \in Leds : x \notin LightsLater(key)
  <2>1. \A key \in Leds : key # b
    BY HIDControlAssumption
  <2>2. QED
    BY <2>1, KindFacts
<1>9. x \notin Selects
  BY KindFacts
<1>10. /\ Typed(u) /\ SameForm(v, u) /\ SameHost(v, u) /\ u.control = v.control
       /\ u.cmds = v.cmds /\ P!Good(u.hidp, g)
  <2>1. Typed(v) /\ P!Good(s, g)
    BY <1>3, <1>5
  <2>2. u = Input(v, s)
    BY <1>4
  <2>3. Brings(v, s, g, u)
    BY <2>1, <2>2, InputFacts
  <2> HIDE DEF g, v, s, a, b
  <2>4. QED
    BY <2>3 DEF Brings
<1> HIDE DEF g, v, s, a, b
<1>11. SameForm(n, u) /\ u.leds = n.leds /\ u.reset = n.reset
  BY <1>5, <1>10 DEF SameForm, SameHost
<1>12. Sound(u, NoCommand, g)
  BY <1>5, <1>6, <1>7, <1>8, <1>9, <1>10, <1>11, NewsFacts, Behind
<1>13. QED
  BY <1>5, <1>6, <1>10, <1>12

(* A key with a light has its button corrected.                            *)
LEMMA AgainFacts ==
    ASSUME NEW n, Typed(n), NEW u, u = Again(n, LedsChanged, 1)
    PROVE  /\ Typed(u) /\ SameForm(n, u) /\ SameHost(n, u) /\ u.control = n.control
           /\ u.hidp = n.hidp /\ Longer(n.cmds, u.cmds)
           /\ \A C : LedsChanged \in C => Has(u.cmds, C)
<1> DEFINE one == [i \in 1 .. 1 |-> LedsChanged]
           c == n.cmds \o one
<1>1. n \in Worlds(n.control) /\ n.cmds \in Seq(Commands) /\ LedsChanged \in Commands
  BY NewsFacts DEF Typed, Worlds
<1>2. one \in Seq(Commands) /\ Len(one) = 1 /\ one[1] = LedsChanged
  BY <1>1
<1> HIDE DEF one
<1>3. /\ c \in Seq(Commands) /\ Len(c) = Len(n.cmds) + 1 /\ Len(n.cmds) \in Nat
      /\ \A i \in 1 .. Len(n.cmds) : c[i] = n.cmds[i]
      /\ c[Len(n.cmds) + 1] = LedsChanged
  <2>1. /\ c \in Seq(Commands) /\ Len(c) = Len(n.cmds) + Len(one)
        /\ \A i \in 1 .. Len(n.cmds) + Len(one) :
               c[i] = IF i <= Len(n.cmds) THEN n.cmds[i] ELSE one[i - Len(n.cmds)]
    BY <1>1, <1>2, ConcatProperties
  <2>2. Len(n.cmds) \in Nat
    BY <1>1
  <2> HIDE DEF c
  <2>3. QED
    BY <1>2, <2>1, <2>2
<1>4. u = [n EXCEPT !.cmds = c]
  BY DEF Again, one
<1> HIDE DEF c
<1>5. u \in Worlds(u.control) /\ u.cmds = c /\ u.control = n.control /\ u.hidp = n.hidp
  BY <1>1, <1>3, <1>4 DEF Worlds
<1>6. SameForm(n, u) /\ SameHost(n, u)
  BY <1>1, <1>4 DEF Worlds, SameForm, SameHost
<1>7. \A b : LedsChanged \notin Presses(b)
  BY NewsFacts, KindFacts
<1>8. ASSUME NEW i \in 1 .. Len(c), NEW b \in Mods, i > Len(n.cmds) PROVE c[i] \notin Presses(b)
  <2>1. i = Len(n.cmds) + 1
    BY <1>3, <1>8
  <2>2. QED
    BY <1>3, <1>7, <2>1
<1>9. Longer(n.cmds, c)
  BY <1>1, <1>3, <1>8 DEF Longer
<1>10. \A C : LedsChanged \in C => Has(c, C)
  BY <1>3 DEF Has
<1>11. QED
  BY <1>5, <1>6, <1>9, <1>10 DEF Typed

LEMMA KeyHandled ==
    ASSUME NEW n, NEW f, NEW x \in Commands, Sound(n, x, f),
           x.cmd = "Keyboard", x.key \notin Mods,
           NEW u, u = Keyboard(n, x.action, x.key, HID!ModCurrent)
    PROVE  u.control = n.control /\ Sound(u, NoCommand, f)
<1> DEFINE key == x.key
           m == HID!ModCurrent
           lit == IF key \in Leds THEN Again(n, LedsChanged, 1) ELSE n
           used == HID!Sticky(n.hidp) # {}
           v == IF used THEN Enqueue(lit, ModifiersChanged) ELSE lit
           s == HID!HIDPKeyboard(n.hidp, "Click", key, m)
<1>1. Typed(n) /\ f \in SUBSET Mods /\ P!Good(n.hidp, f) /\ n.cmds \in Seq(Commands)
  BY DEF Sound, Typed, Worlds
<1>2. x.action = "Click" /\ key \in Keys
  BY CommandFacts
<1>3. u = Input(v, s)
  <2>1. Releases("Click") = 1
    BY DEF Releases
  <2>2. m.current
    BY DEF HID!ModCurrent
  <2>3. QED
    BY <1>2, <2>1, <2>2 DEF Keyboard
<1>4. P!Good(s, f) /\ (HID!Sticky(n.hidp) = {} => Unseen(n.hidp, s, f))
  BY <1>1, <1>2, ActionNames, StrokeFacts
<1>5. /\ Typed(lit) /\ SameForm(n, lit) /\ SameHost(n, lit) /\ lit.control = n.control
      /\ Longer(n.cmds, lit.cmds)
      /\ key \in Leds => \A C : LedsChanged \in C => Has(lit.cmds, C)
  <2>1. CASE key \in Leds
    BY <1>1, <2>1, AgainFacts
  <2>2. CASE key \notin Leds
    BY <1>1, <2>2, Unchanged DEF SameForm, SameHost
  <2>3. QED
    BY <2>1, <2>2
<1>6. /\ Typed(v) /\ SameForm(n, v) /\ SameHost(n, v) /\ v.control = n.control
      /\ Longer(n.cmds, v.cmds)
      /\ key \in Leds => \A C : LedsChanged \in C => Has(v.cmds, C)
      /\ used => Has(v.cmds, {ModifiersChanged})
  <2>1. CASE used
    <3> HIDE DEF lit
    <3>1. v = Enqueue(lit, ModifiersChanged)
      BY <2>1
    <3>2. /\ Typed(v) /\ SameForm(lit, v) /\ SameHost(lit, v) /\ v.control = lit.control
          /\ Longer(lit.cmds, v.cmds) /\ Has(v.cmds, {ModifiersChanged})
      BY <1>5, <3>1, NewsFacts, KindFacts, EnqueueFacts
    <3>3. Longer(n.cmds, v.cmds)
      BY <1>5, <3>2, LongerLonger
    <3>4. key \in Leds => \A C : LedsChanged \in C => Has(v.cmds, C)
      BY <1>5, <3>2, HasLonger
    <3>5. SameForm(n, v) /\ SameHost(n, v)
      BY <1>5, <3>2 DEF SameForm, SameHost
    <3>6. QED
      BY <1>5, <3>2, <3>3, <3>4, <3>5
  <2>2. CASE ~ used
    BY <1>5, <2>2
  <2>3. QED
    BY <2>1, <2>2
<1> HIDE DEF lit, v
<1>7. /\ Typed(u) /\ SameForm(v, u) /\ SameHost(v, u) /\ u.control = v.control
      /\ u.cmds = v.cmds /\ P!Good(u.hidp, f) /\ Unseen(s, u.hidp, f)
  <2>1. Typed(v) /\ P!Good(s, f)
    BY <1>4, <1>6
  <2>2. u = Input(v, s)
    BY <1>3
  <2>3. Brings(v, s, f, u)
    BY <2>1, <2>2, InputFacts
  <2> HIDE DEF s
  <2>4. QED
    BY <2>3 DEF Brings
<1> HIDE DEF s
<1>8. SameForm(n, u) /\ u.leds = n.leds /\ u.reset = n.reset
  BY <1>6, <1>7 DEF SameForm, SameHost
<1>9. \A e \in Leds : Has(u.cmds, LightsLater(e)) \/ (u.leds = n.leds /\ x \notin LightsLater(e))
  <2> SUFFICES ASSUME NEW e \in Leds, x \in LightsLater(e) PROVE Has(u.cmds, LightsLater(e))
    BY <1>8
  <2>1. e = key
    BY KindFacts
  <2>2. LedsChanged \in LightsLater(e)
    BY NewsFacts DEF LightsLater
  <2>3. QED
    BY <1>6, <1>7, <2>1, <2>2
<1>10. \A b \in Mods : x \notin ModsLater(b) /\ x \notin Lifts(b)
  <2>1. \A b \in Mods : b # key
    OBVIOUS
  <2>2. QED
    BY <2>1, KindFacts
<1>11. \/ \E c \in Commands : c.cmd = "ModifiersChanged" /\ Has(u.cmds, {c})
       \/ Unseen(n.hidp, u.hidp, f)
  <2>1. CASE used
    BY <1>6, <1>7, <2>1, NewsFacts
  <2>2. CASE ~ used
    BY <1>4, <1>7, <2>2 DEF Unseen
  <2>3. QED
    BY <2>1, <2>2
<1>12. x \notin Selects
  BY KindFacts
<1>13. Sound(u, NoCommand, f)
  BY <1>1, <1>6, <1>7, <1>8, <1>9, <1>10, <1>11, <1>12, Behind
<1>14. QED
  BY <1>6, <1>7, <1>13
-----------------------------------------------------------------------------
(* The displays.                                                           *)
LEMMA ButtonFacts ==
    /\ ModButtons \subseteq Displays /\ LedButtons \subseteq Displays
    /\ \A e \in ModButtons : e.key \in Mods /\ e \notin LedButtons
    /\ \A e \in LedButtons : e.key \in Leds
    /\ \A e \in Displays : e \in ModButtons \/ e \in LedButtons
  BY DEF ModButtons, LedButtons, Displays

LEMMA LiftedSame ==
    ASSUME NEW n, NEW x, NEW f, Lifted(n, x, f), NEW u, u.held = n.held, u.cmds = n.cmds,
           \A b : x \notin Lifts(b)
    PROVE  Lifted(u, NoCommand, f)
<1> SUFFICES ASSUME NEW b \in Mods \ u.held
             PROVE  /\ b \in f => Soon(u, NoCommand, Lifts(b))
                    /\ NoCommand \in Presses(b) => Has(u.cmds, Lifts(b))
                    /\ \A i \in 1 .. Len(u.cmds) : u.cmds[i] \in Presses(b) =>
                           \E j \in 1 .. Len(u.cmds) : i < j /\ u.cmds[j] \in Lifts(b)
  BY DEF Lifted
<1>1. /\ b \in f => Soon(n, x, Lifts(b))
      /\ \A i \in 1 .. Len(n.cmds) : n.cmds[i] \in Presses(b) =>
             \E j \in 1 .. Len(n.cmds) : i < j /\ n.cmds[j] \in Lifts(b)
  BY DEF Lifted
<1>2. b \in f => Soon(u, NoCommand, Lifts(b))
  BY <1>1 DEF Soon
<1>3. QED
  BY <1>1, <1>2, NothingNow

(* What the screens are told about leaves the rest alone.                  *)
SameRest(n, u) ==
    /\ u.form = n.form /\ u.goal = n.goal /\ u.open = n.open
    /\ u.held = n.held /\ u.cmds = n.cmds /\ u.hidp = n.hidp /\ u.leds = n.leds
    /\ u.plain = n.plain /\ u.control = n.control
SameScreen(n, u) == u.screen = n.screen /\ u.visible = n.visible /\ u.pushed = n.pushed
SameMods(n, u) == /\ u.label = n.label /\ u.state = n.state /\ u.missed = n.missed
                  /\ \A e \in ModButtons : u.value[e] = n.value[e]
                  /\ "mods" \in n.reset => "mods" \in u.reset

LEMMA UpdateModsFields ==
    ASSUME NEW n, Typed(n), NEW force \in BOOLEAN, NEW u, u = UpdateModifierState(n, force)
    PROVE  /\ Typed(u) /\ SameRest(n, u) /\ SameScreen(n, u)
           /\ u.missed = ModButtons \ On(n.screen) /\ ("leds" \in n.reset <=> "leds" \in u.reset)
           /\ \A e \in LedButtons : u.value[e] = n.value[e]
           /\ \A e \in ModButtons : e \in On(n.screen) =>
                /\ u.state[e] = Locked(HIDPModifierState(n, e.key))
                /\ u.value[e] = (e.key \in HIDPModifiers(n))
                /\ force \/ n.label[e] = n.state[e] => u.label[e] = u.state[e]
           /\ \A e \in ModButtons : e \notin On(n.screen) =>
                u.state[e] = n.state[e] /\ u.label[e] = n.label[e]
<1> DEFINE updated == On(n.screen) \cap ModButtons
           locked(e) == Locked(HIDPModifierState(n, e.key))
           label == [e \in ModButtons |-> IF e \in updated /\ (force \/ n.state[e] # locked(e))
                                          THEN locked(e) ELSE n.label[e]]
           state == [e \in ModButtons |-> IF e \in updated THEN locked(e) ELSE n.state[e]]
           value == [e \in Displays |-> IF e \in updated THEN e.key \in HIDPModifiers(n)
                                        ELSE n.value[e]]
           missed == ModButtons \ updated
           reset == n.reset \ {"mods"}
<1>1. n \in Worlds(n.control)
  BY DEF Typed
<1>2. /\ n.label \in [ModButtons -> BOOLEAN] /\ n.state \in [ModButtons -> BOOLEAN]
      /\ n.value \in [Displays -> BOOLEAN] /\ n.reset \in SUBSET {"mods", "leds"}
  BY <1>1 DEF Worlds
<1>3. u = [n EXCEPT !.label = label, !.state = state, !.value = value, !.missed = missed,
                    !.reset = reset]
  BY DEF UpdateModifierState
<1>4. \A e : locked(e) \in BOOLEAN
  BY DEF Locked
<1>5. label \in [ModButtons -> BOOLEAN] /\ state \in [ModButtons -> BOOLEAN]
      /\ value \in [Displays -> BOOLEAN]
  <2> HIDE DEF updated, locked
  <2>1. label \in [ModButtons -> BOOLEAN]
    BY <1>2, <1>4
  <2>2. state \in [ModButtons -> BOOLEAN]
    BY <1>2, <1>4
  <2>3. value \in [Displays -> BOOLEAN]
    <3>1. ASSUME NEW e \in Displays
          PROVE  (IF e \in updated THEN e.key \in HIDPModifiers(n) ELSE n.value[e]) \in BOOLEAN
      <4>1. (e.key \in HIDPModifiers(n)) \in BOOLEAN
        OBVIOUS
      <4>2. n.value[e] \in BOOLEAN
        BY <1>2, <3>1
      <4>3. QED
        BY <4>1, <4>2, Zenon
    <3>2. QED
      BY <3>1
  <2>4. QED
    BY <2>1, <2>2, <2>3
<1>6. missed \in SUBSET ModButtons /\ reset \in SUBSET {"mods", "leds"}
      /\ ("leds" \in n.reset <=> "leds" \in reset)
  BY <1>2
<1>7. /\ \A e \in LedButtons : value[e] = n.value[e]
      /\ \A e \in updated : /\ state[e] = locked(e) /\ value[e] = (e.key \in HIDPModifiers(n))
                            /\ force \/ n.label[e] = n.state[e] => label[e] = state[e]
      /\ \A e \in ModButtons \ updated : state[e] = n.state[e] /\ label[e] = n.label[e]
  <2>1. ASSUME NEW e \in LedButtons PROVE value[e] = n.value[e]
    BY <2>1, ButtonFacts
  <2>2. ASSUME NEW e \in updated
        PROVE  /\ state[e] = locked(e) /\ value[e] = (e.key \in HIDPModifiers(n))
               /\ force \/ n.label[e] = n.state[e] => label[e] = state[e]
    <3>1. e \in ModButtons /\ e \in Displays
      BY <2>2, ButtonFacts
    <3> HIDE DEF updated, locked
    <3>2. QED
      BY <2>2, <3>1
  <2>3. ASSUME NEW e \in ModButtons \ updated
        PROVE  state[e] = n.state[e] /\ label[e] = n.label[e]
    BY <2>3
  <2>4. QED
    BY <2>1, <2>2, <2>3
<1>8. missed = ModButtons \ On(n.screen)
  OBVIOUS
<1> HIDE DEF label, state, value, missed, reset
<1>9. /\ u \in Worlds(u.control) /\ u.label = label /\ u.state = state /\ u.value = value
      /\ u.missed = missed /\ u.reset = reset
  <2>1. u.label = label /\ u.state = state /\ u.value = value /\ u.missed = missed
        /\ u.reset = reset
    BY <1>1, <1>3 DEF Worlds
  <2>2. u \in Worlds(u.control)
    <3>1. missed \in SUBSET ModButtons /\ reset \in SUBSET {"mods", "leds"}
      BY <1>6
    <3> DEFINE v == [n EXCEPT !.label = label, !.state = state, !.value = value]
    <3>2. v \in Worlds(n.control)
      BY <1>1, <1>5 DEF Worlds
    <3>3. u = [v EXCEPT !.missed = missed, !.reset = reset]
      BY <1>3
    <3> HIDE DEF v
    <3>4. u \in Worlds(n.control) /\ u.control = n.control
      BY <3>1, <3>2, <3>3 DEF Worlds
    <3>5. QED
      BY <3>4
  <2>3. QED
    BY <2>1, <2>2
<1>10. SameRest(n, u) /\ SameScreen(n, u)
  BY <1>1, <1>3 DEF Worlds, SameRest, SameScreen
<1>11. QED
  BY <1>6, <1>7, <1>8, <1>9, <1>10 DEF Typed

LEMMA ModsUpdated ==
    ASSUME NEW n, NEW x, NEW f, Sound(n, x, f), NEW force \in BOOLEAN,
           x \notin Selects, \A b : x \notin LightsLater(b) /\ x \notin Lifts(b),
           NEW u, u = UpdateModifierState(n, force)
    PROVE  /\ Sound(u, NoCommand, f) /\ ModsRight(u, NoCommand, f)
           /\ SameRest(n, u) /\ SameScreen(n, u)
           /\ force => \A e \in On(n.screen) \cap ModButtons : u.label[e] = u.state[e]
<1>1. Typed(n)
  BY DEF Sound
<1>2. /\ Typed(u) /\ SameRest(n, u) /\ SameScreen(n, u)
      /\ u.missed = ModButtons \ On(n.screen) /\ ("leds" \in n.reset <=> "leds" \in u.reset)
      /\ \A e \in LedButtons : u.value[e] = n.value[e]
      /\ \A e \in ModButtons : e \in On(n.screen) =>
           /\ u.state[e] = Locked(HIDPModifierState(n, e.key))
           /\ u.value[e] = (e.key \in HIDPModifiers(n))
           /\ force \/ n.label[e] = n.state[e] => u.label[e] = u.state[e]
      /\ \A e \in ModButtons : e \notin On(n.screen) =>
           u.state[e] = n.state[e] /\ u.label[e] = n.label[e]
  BY <1>1, UpdateModsFields
<1>3. Screened(u, NoCommand)
  BY <1>2 DEF Sound, Screened, ScreenRight, Faces, SameRest, SameScreen, Soon
<1>4. Lit(u, NoCommand)
  BY <1>2 DEF Sound, Lit, LightsRight, Faces, SameRest, SameScreen, Soon
<1>5. Stated(u)
  <2>1. ASSUME NEW e \in ModButtons \ u.plain PROVE u.label[e] = u.state[e]
    <3>1. n.label[e] = n.state[e]
      BY <1>2, <2>1 DEF Sound, Stated, SameRest
    <3>2. CASE e \in On(n.screen)
      BY <1>2, <2>1, <3>1, <3>2
    <3>3. CASE e \notin On(n.screen)
      BY <1>2, <2>1, <3>1, <3>3
    <3>4. QED
      BY <3>2, <3>3
  <2>2. QED
    BY <2>1 DEF Stated
<1>6. ModsRight(u, NoCommand, f)
  <2>1. ASSUME NEW e \in ModButtons \ u.missed PROVE Right(u, e)
    <3>1. e \in On(n.screen)
      BY <1>2, <2>1
    <3>2. u.hidp = n.hidp
      BY <1>2 DEF SameRest
    <3>3. QED
      BY <1>2, <2>1, <3>1, <3>2 DEF Right, HIDPModifiers, HIDPModifierState
  <2>2. QED
    BY <2>1 DEF ModsRight
<1>7. Lifted(u, NoCommand, f)
  BY <1>2, LiftedSame DEF Sound, SameRest
<1>8. f \in SUBSET Mods /\ P!Good(u.hidp, f)
  BY <1>2 DEF Sound, SameRest
<1>9. Sound(u, NoCommand, f)
  BY <1>2, <1>3, <1>4, <1>5, <1>6, <1>7, <1>8 DEF Sound, Modified
<1>10. QED
  BY <1>2, <1>6, <1>9

LEMMA UpdateLedFields ==
    ASSUME NEW n, Typed(n), NEW u, u = UpdateLedState(n)
    PROVE  /\ Typed(u) /\ SameRest(n, u) /\ SameScreen(n, u) /\ SameMods(n, u)
           /\ \A e \in On(n.screen) \cap LedButtons : u.value[e] = (e.key \in n.leds)
<1> DEFINE updated == On(n.screen) \cap LedButtons
           value == [e \in Displays |-> IF e \in updated THEN e.key \in n.leds ELSE n.value[e]]
           reset == n.reset \ {"leds"}
<1>1. n \in Worlds(n.control)
  BY DEF Typed
<1>2. n.value \in [Displays -> BOOLEAN] /\ n.reset \in SUBSET {"mods", "leds"}
  BY <1>1 DEF Worlds
<1>3. u = [n EXCEPT !.value = value, !.reset = reset]
  BY DEF UpdateLedState, HIDPLeds
<1>4. value \in [Displays -> BOOLEAN]
  <2> HIDE DEF updated
  <2>1. ASSUME NEW e \in Displays
        PROVE  (IF e \in updated THEN e.key \in n.leds ELSE n.value[e]) \in BOOLEAN
    <3>1. (e.key \in n.leds) \in BOOLEAN
      OBVIOUS
    <3>2. n.value[e] \in BOOLEAN
      BY <1>2, <2>1
    <3>3. QED
      BY <3>1, <3>2, Zenon
  <2>2. QED
    BY <2>1
<1>5. reset \in SUBSET {"mods", "leds"} /\ ("mods" \in n.reset => "mods" \in reset)
  BY <1>2
<1>6. /\ \A e \in ModButtons : value[e] = n.value[e]
      /\ \A e \in updated : value[e] = (e.key \in n.leds)
  <2>1. ASSUME NEW e \in ModButtons PROVE value[e] = n.value[e]
    BY <2>1, ButtonFacts
  <2>2. ASSUME NEW e \in updated PROVE value[e] = (e.key \in n.leds)
    <3>1. e \in Displays
      BY <2>2, ButtonFacts
    <3> HIDE DEF updated
    <3>2. QED
      BY <2>2, <3>1
  <2>3. QED
    BY <2>1, <2>2
<1> HIDE DEF value, reset
<1>7. u \in Worlds(u.control) /\ u.value = value /\ u.reset = reset
  BY <1>1, <1>3, <1>4, <1>5 DEF Worlds
<1>8. SameRest(n, u) /\ SameScreen(n, u) /\ u.label = n.label /\ u.state = n.state
      /\ u.missed = n.missed
  BY <1>1, <1>3 DEF Worlds, SameRest, SameScreen
<1>9. QED
  BY <1>5, <1>6, <1>7, <1>8 DEF Typed, SameMods

(* The modifiers' displays are right as they were.                         *)
LEMMA SameModsRight ==
    ASSUME NEW n, NEW u, SameMods(n, u), u.cmds = n.cmds, u.hidp = n.hidp, NEW x, NEW f,
           \A b : x \notin ModsLater(b), ModsRight(n, x, f)
    PROVE  ModsRight(u, NoCommand, f)
<1> SUFFICES ASSUME NEW e \in ModButtons \ u.missed, e.key \notin f,
                    ~ Soon(u, NoCommand, ModsLater(e.key))
             PROVE  Right(u, e)
  BY DEF ModsRight
<1>1. Right(n, e)
  BY DEF ModsRight, SameMods, Soon
<1>2. QED
  BY <1>1 DEF Right, HIDPModifiers, HIDPModifierState, SameMods

LEMMA LedsUpdated ==
    ASSUME NEW n, NEW x, NEW f, Sound(n, x, f),
           x \notin Selects, \A b : x \notin ModsLater(b) /\ x \notin Lifts(b),
           NEW u, u = UpdateLedState(n)
    PROVE  /\ Sound(u, NoCommand, f) /\ LightsRight(u, NoCommand)
           /\ SameRest(n, u) /\ SameScreen(n, u) /\ SameMods(n, u)
<1>1. Typed(n)
  BY DEF Sound
<1>2. /\ Typed(u) /\ SameRest(n, u) /\ SameScreen(n, u) /\ SameMods(n, u)
      /\ \A e \in On(n.screen) \cap LedButtons : u.value[e] = (e.key \in n.leds)
  BY <1>1, UpdateLedFields
<1>3. Screened(u, NoCommand)
  BY <1>2 DEF Sound, Screened, ScreenRight, Faces, SameRest, SameScreen, Soon
<1>4. LightsRight(u, NoCommand)
  BY <1>2 DEF LightsRight, SameRest, SameScreen
<1>5. Stated(u)
  BY <1>2 DEF Sound, Stated, SameRest, SameMods
<1>6. Modified(u, NoCommand, f)
  <2> SUFFICES ASSUME Faces(u), "mods" \notin u.reset PROVE ModsRight(u, NoCommand, f)
    BY DEF Modified
  <2>1. ModsRight(n, x, f)
    BY <1>2 DEF Sound, Modified, Faces, SameRest, SameMods
  <2>2. QED
    BY <1>2, <2>1, SameModsRight DEF SameRest
<1>7. Lifted(u, NoCommand, f)
  BY <1>2, LiftedSame DEF Sound, SameRest
<1>8. f \in SUBSET Mods /\ P!Good(u.hidp, f)
  BY <1>2 DEF Sound, SameRest
<1>9. Sound(u, NoCommand, f)
  BY <1>2, <1>3, <1>4, <1>5, <1>6, <1>7, <1>8 DEF Sound, Lit
<1>10. QED
  BY <1>2, <1>4, <1>9
-----------------------------------------------------------------------------
(* Screens.                                                                *)
LEMMA SwitchFields ==
    ASSUME NEW n, Typed(n), n.form = "Keyboard", NEW to \in Screens,
           NEW u, u = SwitchScreen(n, to)
    PROVE  /\ Typed(u) /\ SameRest(n, u) /\ SameMods(n, u)
           /\ u.screen = to /\ u.pushed = to /\ u.visible = (n.visible \ {n.screen}) \cup {to}
           /\ \A e \in On(to) \cap LedButtons : u.value[e] = (e.key \in n.leds)
<1> DEFINE a == [n EXCEPT !.pushed = to]
           b == [a EXCEPT !.visible = @ \ {n.screen}]
           c == [b EXCEPT !.screen = to]
           d == [c EXCEPT !.visible = @ \cup {to}]
<1>1. n \in Worlds(n.control) /\ n.visible \in SUBSET Screens
  BY DEF Typed, Worlds
<1>2. /\ a \in Worlds(n.control) /\ SameRest(n, a) /\ SameMods(n, a)
      /\ a.screen = n.screen /\ a.pushed = to /\ a.visible = n.visible
  BY <1>1 DEF Worlds, SameRest, SameMods
<1>3. a.form = "Keyboard"
  BY <1>2 DEF SameRest
<1> HIDE DEF a
<1>4. /\ b \in Worlds(n.control) /\ SameRest(a, b) /\ SameMods(a, b)
      /\ b.screen = n.screen /\ b.pushed = to /\ b.visible = n.visible \ {n.screen}
  BY <1>1, <1>2 DEF Worlds, SameRest, SameMods
<1>5. b = HideScreen(a, n.screen)
  BY <1>3 DEF HideScreen
<1> HIDE DEF b
<1>6. /\ c \in Worlds(n.control) /\ SameRest(b, c) /\ SameMods(b, c)
      /\ c.screen = to /\ c.pushed = to /\ c.visible = n.visible \ {n.screen}
  BY <1>4 DEF Worlds, SameRest, SameMods
<1>7. c.form = "Keyboard"
  BY <1>3, <1>4, <1>6 DEF SameRest
<1>8. c = [HideScreen([n EXCEPT !.pushed = to], n.screen) EXCEPT !.screen = to]
  BY <1>5 DEF a
<1> HIDE DEF c
<1>9. /\ d \in Worlds(n.control) /\ SameRest(c, d) /\ SameMods(c, d)
      /\ d.screen = to /\ d.pushed = to /\ d.visible = (n.visible \ {n.screen}) \cup {to}
  BY <1>1, <1>6 DEF Worlds, SameRest, SameMods
<1>10. d = ShowScreen(c, to)
  BY <1>7 DEF ShowScreen
<1> HIDE DEF d
<1>11. SameRest(n, d) /\ SameMods(n, d)
  BY <1>2, <1>4, <1>6, <1>9 DEF SameRest, SameMods
<1>12. u = UpdateLedState(d)
  BY <1>8, <1>10 DEF SwitchScreen
<1>13. Typed(d) /\ d.leds = n.leds
  BY <1>9, <1>11 DEF Typed, SameRest
<1>14. /\ Typed(u) /\ SameRest(d, u) /\ SameScreen(d, u) /\ SameMods(d, u)
       /\ \A e \in On(d.screen) \cap LedButtons : u.value[e] = (e.key \in d.leds)
  BY <1>12, <1>13, UpdateLedFields
<1>15. SameRest(n, u) /\ SameMods(n, u)
  BY <1>11, <1>14 DEF SameRest, SameMods
<1>16. QED
  BY <1>9, <1>13, <1>14, <1>15 DEF SameScreen

LEMMA Switched ==
    ASSUME NEW n, NEW x, NEW f, Sound(n, x, f), NEW to \in Screens,
           \A b : x \notin ModsLater(b) /\ x \notin Lifts(b),
           NEW u, u = SwitchScreen(n, to)
    PROVE  /\ Sound(u, NoCommand, f) /\ SameRest(n, u) /\ SameMods(n, u) /\ u.screen = to
           /\ n.form = "Keyboard" => ScreenRight(u, NoCommand) /\ LightsRight(u, NoCommand)
<1>1. Typed(n) /\ n \in Worlds(n.control)
  BY DEF Sound, Typed
<1>2. CASE n.form = "Keyboard"
  <2>1. /\ Typed(u) /\ SameRest(n, u) /\ SameMods(n, u)
        /\ u.screen = to /\ u.pushed = to /\ u.visible = (n.visible \ {n.screen}) \cup {to}
        /\ \A e \in On(to) \cap LedButtons : u.value[e] = (e.key \in n.leds)
    BY <1>1, <1>2, SwitchFields
  <2>2. n.visible \subseteq {n.screen}
    BY <1>2 DEF Sound, Screened
  <2>3. ScreenRight(u, NoCommand)
    BY <2>1, <2>2 DEF ScreenRight
  <2>4. LightsRight(u, NoCommand)
    BY <2>1 DEF LightsRight, SameRest
  <2>5. Stated(u)
    BY <2>1 DEF Sound, Stated, SameRest, SameMods
  <2>6. Modified(u, NoCommand, f)
    <3> SUFFICES ASSUME Faces(u), "mods" \notin u.reset PROVE ModsRight(u, NoCommand, f)
      BY DEF Modified
    <3>1. ModsRight(n, x, f)
      BY <2>1 DEF Sound, Modified, Faces, SameRest, SameMods
    <3>2. QED
      BY <2>1, <3>1, SameModsRight DEF SameRest
  <2>7. Lifted(u, NoCommand, f)
    BY <2>1, LiftedSame DEF Sound, SameRest
  <2>8. f \in SUBSET Mods /\ P!Good(u.hidp, f)
    BY <2>1 DEF Sound, SameRest
  <2>9. Screened(u, NoCommand)
    BY <2>1, <2>3 DEF Screened, ScreenRight
  <2>10. Sound(u, NoCommand, f)
    BY <2>1, <2>4, <2>5, <2>6, <2>7, <2>8, <2>9 DEF Sound, Lit
  <2>11. QED
    BY <2>1, <2>3, <2>4, <2>10
<1>3. CASE n.form # "Keyboard"
  <2>1. u = [n EXCEPT !.screen = to]
    BY <1>3 DEF SwitchScreen
  <2>2. /\ u \in Worlds(n.control) /\ SameRest(n, u) /\ SameMods(n, u) /\ u.screen = to
    BY <1>1, <2>1 DEF Worlds, SameRest, SameMods
  <2>3. Typed(u) /\ u.form # "Keyboard"
    BY <1>3, <2>2 DEF Typed, SameRest
  <2>4. Stated(u)
    BY <2>2 DEF Sound, Stated, SameRest, SameMods
  <2>5. Lifted(u, NoCommand, f)
    BY <2>2, LiftedSame DEF Sound, SameRest
  <2>6. f \in SUBSET Mods /\ P!Good(u.hidp, f)
    BY <2>2 DEF Sound, SameRest
  <2>7. Screened(u, NoCommand) /\ Lit(u, NoCommand) /\ Modified(u, NoCommand, f)
    BY <2>3 DEF Screened, Lit, Modified, Faces
  <2>8. QED
    BY <1>3, <2>2, <2>3, <2>4, <2>5, <2>6, <2>7 DEF Sound
<1>4. QED
  BY <1>2, <1>3

LEMMA NextScreen ==
    ASSUME NEW n
    PROVE  \E to \in Screens : KbdSwitchScreens(n) = SwitchScreen(n, to)
<1> DEFINE to == CASE n.screen = "Alpha"   -> "Numeric"
                   [] n.screen = "Numeric" -> "Cursor"
                   [] n.screen = "Cursor"  -> "Function"
                   [] OTHER                -> "Alpha"
<1>1. to \in Screens
  BY DEF Screens
<1>2. KbdSwitchScreens(n) = SwitchScreen(n, to)
  BY DEF KbdSwitchScreens
<1>3. QED
  BY <1>1, <1>2

(* frmOpenEvent and frmUpdateEvent.                                        *)
LEMMA Opened ==
    ASSUME NEW n, NEW f, Sound(n, NoCommand, f), NEW u, u = OpenForm(n)
    PROVE  u.control = n.control /\ Sound(u, NoCommand, f)
<1>1. Typed(n) /\ n \in Worlds(n.control) /\ n.form \in {"Mouse", "Keyboard"} /\ n.screen \in Screens
  BY DEF Sound, Typed, Worlds
<1>2. CASE n.form = "Mouse"
  <2>1. u = [n EXCEPT !.open = TRUE]
    BY <1>2 DEF OpenForm
  <2>2. /\ u \in Worlds(n.control) /\ u.control = n.control /\ u.form = "Mouse" /\ SameMods(n, u)
        /\ u.plain = n.plain /\ u.held = n.held /\ u.cmds = n.cmds /\ u.hidp = n.hidp
    BY <1>1, <1>2, <2>1 DEF Worlds, SameMods
  <2>3. Stated(u)
    BY <2>2 DEF Sound, Stated, SameMods
  <2>4. Lifted(u, NoCommand, f)
    BY <2>2, NothingNow, LiftedSame DEF Sound
  <2>5. Screened(u, NoCommand) /\ Lit(u, NoCommand) /\ Modified(u, NoCommand, f)
    BY <2>2 DEF Screened, Lit, Modified, Faces
  <2>6. f \in SUBSET Mods /\ P!Good(u.hidp, f)
    BY <2>2 DEF Sound
  <2>7. QED
    BY <2>2, <2>3, <2>4, <2>5, <2>6 DEF Sound, Typed
<1>3. CASE n.form = "Keyboard"
  <2> DEFINE a == UpdateModifierState(n, TRUE)
             b == UpdateLedState(a)
             c == SwitchScreen(b, n.screen)
  <2>1. /\ Sound(a, NoCommand, f) /\ ModsRight(a, NoCommand, f)
        /\ SameRest(n, a) /\ SameScreen(n, a)
        /\ \A e \in On(n.screen) \cap ModButtons : a.label[e] = a.state[e]
    BY NothingNow, ModsUpdated
  <2> HIDE DEF a
  <2>2. /\ Sound(b, NoCommand, f) /\ SameRest(a, b) /\ SameScreen(a, b) /\ SameMods(a, b)
    BY <2>1, NothingNow, LedsUpdated
  <2>3. ModsRight(b, NoCommand, f)
    BY <2>1, <2>2, NothingNow, SameModsRight DEF SameRest
  <2> HIDE DEF b
  <2>4. b.form = "Keyboard"
    BY <1>3, <2>1, <2>2 DEF SameRest
  <2>5. /\ Sound(c, NoCommand, f) /\ SameRest(b, c) /\ SameMods(b, c)
        /\ ScreenRight(c, NoCommand) /\ LightsRight(c, NoCommand)
    BY <1>1, <2>2, <2>4, NothingNow, Switched
  <2>6. ModsRight(c, NoCommand, f)
    BY <2>3, <2>5, NothingNow, SameModsRight DEF SameRest
  <2> DEFINE plain == c.plain \ On(n.screen)
             d == [c EXCEPT !.open = TRUE]
  <2>7. u = [d EXCEPT !.plain = plain]
    BY <1>3 DEF OpenForm, a, b
  <2> HIDE DEF c
  <2>8. c \in Worlds(c.control) /\ c.plain \in SUBSET ModButtons
    BY <2>5 DEF Sound, Typed, Worlds
  <2>9. plain \in SUBSET ModButtons
    BY <2>8
  <2>10. plain = c.plain \ On(n.screen)
    OBVIOUS
  <2> HIDE DEF plain
  <2>11. /\ d \in Worlds(c.control) /\ d.control = c.control
        /\ SameMods(c, d) /\ SameScreen(c, d) /\ d.leds = c.leds /\ d.value = c.value
    BY <2>8 DEF Worlds, SameMods, SameScreen
  <2>12. d.held = c.held /\ d.cmds = c.cmds /\ d.hidp = c.hidp
    BY <2>8 DEF Worlds
  <2> HIDE DEF d
  <2>13. u \in Worlds(c.control) /\ u.control = c.control /\ u.plain = plain
    BY <2>7, <2>9, <2>11 DEF Worlds
  <2>14. /\ SameMods(d, u) /\ SameScreen(d, u) /\ u.leds = d.leds /\ u.value = d.value
        /\ u.held = d.held /\ u.cmds = d.cmds /\ u.hidp = d.hidp
    BY <2>7, <2>9, <2>11 DEF Worlds, SameMods, SameScreen
  <2>15. /\ u \in Worlds(u.control) /\ u.control = c.control /\ u.plain = c.plain \ On(n.screen)
        /\ SameMods(c, u) /\ SameScreen(c, u) /\ u.leds = c.leds /\ u.value = c.value
        /\ u.held = c.held /\ u.cmds = c.cmds /\ u.hidp = c.hidp
    BY <2>10, <2>11, <2>12, <2>13, <2>14 DEF SameMods, SameScreen
  <2>16. Stated(u)
    <3>1. ASSUME NEW e \in ModButtons \ u.plain PROVE u.label[e] = u.state[e]
      <4>1. CASE e \in On(n.screen)
        <5>1. a.label[e] = a.state[e]
          BY <2>1, <3>1, <4>1
        <5>2. QED
          BY <2>2, <2>5, <2>15, <5>1 DEF SameMods
      <4>2. CASE e \notin On(n.screen)
        <5>1. e \notin c.plain
          BY <2>15, <3>1, <4>2
        <5>2. c.label[e] = c.state[e]
          BY <2>5, <3>1, <5>1 DEF Sound, Stated
        <5>3. QED
          BY <2>15, <5>2 DEF SameMods
      <4>3. QED
        BY <4>1, <4>2
    <3>2. QED
      BY <3>1 DEF Stated
  <2>17. ScreenRight(u, NoCommand) /\ Screened(u, NoCommand)
    BY <2>5, <2>15 DEF ScreenRight, Screened, SameScreen, Soon
  <2>18. Lit(u, NoCommand)
    BY <2>5, <2>15 DEF Lit, LightsRight, SameScreen, Soon
  <2>19. Modified(u, NoCommand, f)
    BY <2>6, <2>15, NothingNow, SameModsRight DEF Modified
  <2>20. Lifted(u, NoCommand, f)
    BY <2>5, <2>15, NothingNow, LiftedSame DEF Sound
  <2>21. f \in SUBSET Mods /\ P!Good(u.hidp, f)
    BY <2>5, <2>15 DEF Sound
  <2>22. u.control = n.control
    BY <2>1, <2>2, <2>5, <2>15 DEF SameRest
  <2>23. QED
    BY <2>15, <2>16, <2>17, <2>18, <2>19, <2>20, <2>21, <2>22 DEF Sound, Typed
<1>4. QED
  BY <1>1, <1>2, <1>3

(* frmLoadEvent.                                                           *)
LEMMA Loaded ==
    ASSUME NEW n, NEW f, Sound(n, NoCommand, f), n.goal # "none", NEW u, u = InitForm(n)
    PROVE  u.control = n.control /\ Sound(u, NoCommand, f)
<1> DEFINE value == [e \in Displays |-> FALSE]
           label == [e \in ModButtons |-> FALSE]
           a == [n EXCEPT !.form = n.goal, !.goal = "none", !.open = FALSE]
           b == [a EXCEPT !.visible = {}, !.pushed = "Alpha", !.plain = ModButtons]
<1>1. n \in Worlds(n.control) /\ n.goal \in {"Mouse", "Keyboard"}
  BY DEF Sound, Typed, Worlds
<1>2. value \in [Displays -> BOOLEAN] /\ label \in [ModButtons -> BOOLEAN] /\ "Alpha" \in Screens
  BY DEF Screens
<1>3. u = [b EXCEPT !.value = value, !.label = label]
  BY DEF InitForm
<1> HIDE DEF value, label
<1>4. /\ a \in Worlds(n.control) /\ a.control = n.control /\ ~ a.open
      /\ a.held = n.held /\ a.cmds = n.cmds /\ a.hidp = n.hidp
  BY <1>1 DEF Worlds
<1> HIDE DEF a
<1>5. /\ b \in Worlds(n.control) /\ b.control = n.control /\ ~ b.open
      /\ b.held = n.held /\ b.cmds = n.cmds /\ b.hidp = n.hidp
      /\ b.plain = ModButtons /\ b.visible = {}
  BY <1>2, <1>4 DEF Worlds
<1> HIDE DEF b
<1>6. u \in Worlds(n.control)
  <2> DEFINE c == [b EXCEPT !.value = value]
  <2>1. c \in Worlds(n.control)
    BY <1>2, <1>5 DEF Worlds
  <2>2. u = [c EXCEPT !.label = label]
    BY <1>3
  <2> HIDE DEF c
  <2>3. QED
    BY <1>2, <2>1, <2>2 DEF Worlds
<1>7. /\ u \in Worlds(n.control) /\ u.control = n.control /\ ~ u.open
      /\ u.held = n.held /\ u.cmds = n.cmds /\ u.hidp = n.hidp
      /\ u.plain = ModButtons /\ u.visible = {}
  BY <1>3, <1>5, <1>6 DEF Worlds
<1>8. Screened(u, NoCommand) /\ Lit(u, NoCommand) /\ Modified(u, NoCommand, f) /\ Stated(u)
  BY <1>7 DEF Screened, Lit, Modified, Stated, Faces
<1>9. Lifted(u, NoCommand, f)
  BY <1>7, NothingNow, LiftedSame DEF Sound
<1>10. f \in SUBSET Mods /\ P!Good(u.hidp, f)
  BY <1>7 DEF Sound
<1>11. QED
  BY <1>7, <1>8, <1>9, <1>10 DEF Sound, Typed
-----------------------------------------------------------------------------
(* A command that the display has nothing to learn from.                   *)
LEMMA Ignored ==
    ASSUME NEW n, NEW x \in Commands, NEW f, Sound(n, x, f),
           x.cmd \notin {"Select", "Keyboard", "HardKey"},
           n.form = "Keyboard" => x.cmd \notin {"ModifiersChanged", "LedsChanged"},
           NEW u, Typed(u), SameScreen(n, u), SameMods(n, u), u.value = n.value,
           u.form = n.form, u.open = n.open, u.plain = n.plain, u.held = n.held,
           u.reset = n.reset, u.cmds = n.cmds, u.hidp = n.hidp, u.leds = n.leds
    PROVE  Sound(u, NoCommand, f)
<1>1. x \notin Selects /\ \A b : x \notin Lifts(b)
  BY KindFacts
<1>2. Screened(u, NoCommand)
  BY <1>1 DEF Sound, Screened, ScreenRight, Faces, Soon, SameScreen
<1>3. Lit(u, NoCommand)
  <2> SUFFICES ASSUME Faces(u), "leds" \notin u.reset PROVE LightsRight(u, NoCommand)
    BY DEF Lit
  <2>1. LightsRight(n, x)
    BY DEF Sound, Lit, Faces
  <2>2. \A e : x \notin LightsLater(e)
    BY KindFacts DEF Faces
  <2>3. QED
    BY <2>1, <2>2 DEF LightsRight, Soon, SameScreen
<1>4. Stated(u)
  BY DEF Sound, Stated, SameMods
<1>5. Modified(u, NoCommand, f)
  <2> SUFFICES ASSUME Faces(u), "mods" \notin u.reset PROVE ModsRight(u, NoCommand, f)
    BY DEF Modified
  <2>1. ModsRight(n, x, f)
    BY DEF Sound, Modified, Faces
  <2>2. \A b : x \notin ModsLater(b)
    BY KindFacts DEF Faces
  <2>3. QED
    BY <2>1, <2>2, SameModsRight
<1>6. Lifted(u, NoCommand, f)
  BY <1>1, LiftedSame DEF Sound
<1>7. f \in SUBSET Mods /\ P!Good(u.hidp, f)
  BY DEF Sound
<1>8. QED
  BY <1>2, <1>3, <1>4, <1>5, <1>6, <1>7 DEF Sound

LEMMA GoalChosen ==
    ASSUME NEW n, NEW x \in Commands, NEW f, Sound(n, x, f),
           x.cmd \in {"SwitchForms", "SwitchScreens"}, NEW form \in {"Mouse", "Keyboard"},
           NEW u, u = SwitchToForm(n, form)
    PROVE  u.control = n.control /\ Sound(u, NoCommand, f)
<1>1. n \in Worlds(n.control)
  BY DEF Sound, Typed
<1>2. u = [n EXCEPT !.goal = form]
  BY DEF SwitchToForm
<1>3. u \in Worlds(n.control) /\ u.control = n.control
  BY <1>1, <1>2 DEF Worlds
<1>4. /\ SameScreen(n, u) /\ SameMods(n, u) /\ u.value = n.value
      /\ u.form = n.form /\ u.open = n.open /\ u.plain = n.plain /\ u.held = n.held
      /\ u.reset = n.reset /\ u.cmds = n.cmds /\ u.hidp = n.hidp /\ u.leds = n.leds
  BY <1>1, <1>2 DEF Worlds, SameScreen, SameMods
<1>5. x.cmd \notin {"Select", "Keyboard", "HardKey", "ModifiersChanged", "LedsChanged"} /\ Typed(u)
  BY <1>3 DEF Typed
<1>6. QED
  BY <1>3, <1>4, <1>5, Ignored

LEMMA HardSwitchHandled ==
    ASSUME NEW n, NEW x \in Commands, NEW f, Sound(n, x, f), x.cmd = "HardKey", x.key \notin Mods,
           NEW c \in Commands, c.cmd \in {"SwitchForms", "SwitchScreens"}, NEW u, u = Enqueue(n, c)
    PROVE  u.control = n.control /\ Sound(u, NoCommand, f)
<1>1. Typed(n) /\ f \in SUBSET Mods /\ P!Good(n.hidp, f)
  BY DEF Sound
<1>2. \A b \in Mods : c \notin Presses(b)
  BY KindFacts
<1>3. /\ Typed(u) /\ SameForm(n, u) /\ SameHost(n, u) /\ u.control = n.control
      /\ u.hidp = n.hidp /\ Longer(n.cmds, u.cmds)
  BY <1>1, <1>2, EnqueueFacts
<1>4. u.leds = n.leds /\ u.reset = n.reset /\ n.reset \subseteq u.reset
  BY <1>3 DEF SameHost
<1>5. x \notin Selects /\ \A e : x \notin LightsLater(e)
  BY KindFacts
<1>6. \A b \in Mods : x \notin ModsLater(b) /\ x \notin Lifts(b)
  <2>1. \A b \in Mods : x.key # b
    OBVIOUS
  <2>2. QED
    BY <2>1, KindFacts
<1>7. Unseen(n.hidp, u.hidp, f)
  BY <1>3 DEF Unseen
<1>8. P!Good(u.hidp, f)
  BY <1>1, <1>3
<1>9. Sound(u, NoCommand, f)
  BY <1>1, <1>3, <1>4, <1>5, <1>6, <1>7, <1>8, Behind
<1>10. QED
  BY <1>3, <1>9

LEMMA HandleForm ==
    ASSUME NEW n, NEW x \in Commands, NEW f, Sound(n, x, f),
           x.cmd \in {"ModifiersChanged", "LedsChanged", "SwitchScreens", "SwitchForms"},
           NEW u, u = Handle(n, x)
    PROVE  u.control = n.control /\ Sound(u, NoCommand, f)
<1>1. n.form \in {"Mouse", "Keyboard"} /\ Typed(n) /\ n \in Worlds(n.control)
  BY DEF Sound, Typed, Worlds
<1>2. CASE n.form = "Keyboard" /\ x.cmd = "ModifiersChanged"
  <2>1. u = UpdateModifierState(n, FALSE)
    BY <1>2 DEF Handle, KeyboardFormHandles, KeyboardFormHandleEvent
  <2>2. x \notin Selects /\ \A b : x \notin LightsLater(b) /\ x \notin Lifts(b)
    BY <1>2, KindFacts
  <2>3. QED
    BY <2>1, <2>2, ModsUpdated DEF SameRest
<1>3. CASE n.form = "Keyboard" /\ x.cmd = "LedsChanged"
  <2>1. u = UpdateLedState(n)
    BY <1>3 DEF Handle, KeyboardFormHandles, KeyboardFormHandleEvent
  <2>2. x \notin Selects /\ \A b : x \notin ModsLater(b) /\ x \notin Lifts(b)
    BY <1>3, KindFacts
  <2>3. QED
    BY <2>1, <2>2, LedsUpdated DEF SameRest
<1>4. CASE n.form = "Keyboard" /\ x.cmd = "SwitchScreens"
  <2>1. u = KbdSwitchScreens(n)
    BY <1>4 DEF Handle, KeyboardFormHandles, KeyboardFormHandleEvent
  <2>2. PICK to \in Screens : KbdSwitchScreens(n) = SwitchScreen(n, to)
    BY NextScreen
  <2>3. \A b : x \notin ModsLater(b) /\ x \notin Lifts(b)
    BY <1>4, KindFacts
  <2>4. u = SwitchScreen(n, to)
    BY <2>1, <2>2
  <2>5. Sound(u, NoCommand, f) /\ SameRest(n, u)
    BY <2>3, <2>4, Switched
  <2>6. QED
    BY <2>5 DEF SameRest
<1>5. CASE n.form = "Mouse" /\ x.cmd = "SwitchScreens"
  <2>1. u = SwitchToForm(n, "Keyboard")
    BY <1>5 DEF Handle
  <2>2. QED
    BY <1>5, <2>1, GoalChosen
<1>6. CASE x.cmd = "SwitchForms"
  <2>1. u = SwitchToForm(n, IF n.form = "Mouse" THEN "Keyboard" ELSE "Mouse")
    BY <1>6 DEF Handle, KeyboardFormHandles
  <2>2. (IF n.form = "Mouse" THEN "Keyboard" ELSE "Mouse") \in {"Mouse", "Keyboard"}
    OBVIOUS
  <2>3. QED
    BY <1>6, <2>1, <2>2, GoalChosen
<1>7. CASE n.form = "Mouse" /\ x.cmd \in {"ModifiersChanged", "LedsChanged"}
  <2>1. u = n
    BY <1>7 DEF Handle, CmdExecute
  <2>2. SameScreen(n, n) /\ SameMods(n, n)
    BY DEF SameScreen, SameMods
  <2>3. Sound(n, NoCommand, f)
    BY <1>1, <1>7, <2>2, Ignored
  <2>4. QED
    BY <2>1, <2>3
<1>8. QED
  BY <1>1, <1>2, <1>3, <1>4, <1>5, <1>6, <1>7

LEMMA Handled ==
    ASSUME NEW n, NEW x \in Commands, NEW f, Sound(n, x, f), NEW u, u = Handle(n, x)
    PROVE  u.control = n.control /\ \E g \in SUBSET Mods : Sound(u, NoCommand, g)
<1>1. f \in SUBSET Mods /\ Typed(n)
  BY DEF Sound
<1>2. CASE x.cmd \in {"ModifiersChanged", "LedsChanged", "SwitchScreens", "SwitchForms"}
  BY <1>1, <1>2, HandleForm
<1>3. CASE x.cmd \in {"ResetHIDState", "UnplugReceived"}
  <2>1. u = n
    BY <1>3 DEF Handle, KeyboardFormHandles, CmdExecute
  <2>2. SameScreen(n, n) /\ SameMods(n, n)
    BY DEF SameScreen, SameMods
  <2>3. Sound(n, NoCommand, f)
    BY <1>1, <1>3, <2>2, Ignored
  <2>4. QED
    BY <1>1, <2>1, <2>3
<1>4. CASE x.cmd = "Select"
  <2>1. u = SwitchScreen(n, x.screen)
    BY <1>4 DEF Handle, KeyboardFormHandles, CmdExecute
  <2>2. x.screen \in Screens /\ \A b : x \notin ModsLater(b) /\ x \notin Lifts(b)
    BY <1>4, CommandFacts, KindFacts
  <2>3. Sound(u, NoCommand, f) /\ SameRest(n, u)
    BY <2>1, <2>2, Switched
  <2>4. QED
    BY <1>1, <2>3 DEF SameRest
<1>5. CASE x.cmd = "Keyboard" \/ (x.cmd = "HardKey" /\ x.key \in Mods)
  <2>1. u = Keyboard(n, x.action, x.key, HID!ModCurrent)
    BY <1>5 DEF Handle, KeyboardFormHandles, CmdExecute
  <2>2. CASE x.key \in Mods
    BY <1>5, <2>1, <2>2, ModifierHandled
  <2>3. CASE x.key \notin Mods
    BY <1>1, <1>5, <2>1, <2>3, KeyHandled
  <2>4. QED
    BY <2>2, <2>3
<1>6. CASE x.cmd = "HardKey" /\ x.key \notin Mods
  <2>1. u = Enqueue(n, IF x.key = "Hard1" THEN [cmd |-> "SwitchForms"] ELSE [cmd |-> "SwitchScreens"])
    BY <1>6 DEF Handle, KeyboardFormHandles, CmdExecute
  <2>2. [cmd |-> "SwitchForms"] \in Commands /\ [cmd |-> "SwitchScreens"] \in Commands
    BY PlainCommands
  <2>3. u.control = n.control /\ Sound(u, NoCommand, f)
    BY <1>6, <2>1, <2>2, HardSwitchHandled
  <2>4. QED
    BY <1>1, <2>3
<1>7. QED
  BY <1>2, <1>3, <1>4, <1>5, <1>6, CommandFacts
-----------------------------------------------------------------------------
(* The host.                                                               *)
LEMMA MessageFacts ==
    ASSUME NEW m \in ControlMessages
    PROVE  /\ m.type \in {"SetReport", "GetReport", "SetIdle"} => m.short \in BOOLEAN
           /\ m.type = "SetReport" /\ ~ m.short /\ m.report = "Output" => m.leds \in SUBSET Leds
           /\ m.type = "SetProtocol" => m.value \in {0, 1}
           /\ m.type = "SetIdle" /\ ~ m.short => m.value \in IdleRates
           /\ m.type \in {"HIDControl", "Handshake", "Data", "DatC", "GetProtocol", "GetIdle",
                          "Reserved", "GetReport", "SetReport", "SetProtocol", "SetIdle"}
  BY DEF ControlMessages

(* What the display shows, and what it waits for, is left alone.           *)
LEMMA Elsewhere ==
    ASSUME NEW n, NEW f, Sound(n, NoCommand, f),
           NEW u, Typed(u), SameForm(n, u), u.reset = n.reset, u.leds = n.leds,
           u.cmds = n.cmds, P!Good(u.hidp, f), Unseen(n.hidp, u.hidp, f)
    PROVE  Sound(u, NoCommand, f)
<1>1. f \in SUBSET Mods /\ n.cmds \in Seq(Commands)
  BY DEF Sound, Typed, Worlds
<1>2. Longer(n.cmds, u.cmds) /\ n.reset \subseteq u.reset
  BY <1>1, Unchanged
<1>3. QED
  BY <1>1, <1>2, NothingNow, Behind

LEMMA Said ==
    ASSUME NEW n, NEW f, Sound(n, NoCommand, f), NEW sent, NEW u, u = [n EXCEPT !.control = sent]
    PROVE  Sound(u, NoCommand, f) /\ u.control = sent
<1>1. n \in Worlds(n.control) /\ P!Good(n.hidp, f)
  BY DEF Sound, Typed
<1>2. u \in Worlds(sent) /\ u.control = sent
  BY <1>1 DEF Worlds
<1>3. /\ SameForm(n, u) /\ u.reset = n.reset /\ u.leds = n.leds /\ u.cmds = n.cmds
      /\ u.hidp = n.hidp
  BY <1>1 DEF Worlds, SameForm
<1>4. Typed(u) /\ P!Good(u.hidp, f) /\ Unseen(n.hidp, u.hidp, f)
  BY <1>1, <1>2, <1>3 DEF Typed, Unseen
<1>5. QED
  BY <1>2, <1>3, <1>4, Elsewhere

LEMMA SendFacts ==
    ASSUME NEW n, NEW f, Sound(n, NoCommand, f)
    PROVE  /\ \A code : Sound(SendHandshake(n, code), NoCommand, f)
           /\ \A report, data : Sound(SendData(n, report, data), NoCommand, f)
           /\ Sound(Invalid(n), NoCommand, f)
<1>1. \A sent : Sound([n EXCEPT !.control = sent], NoCommand, f)
  BY Said
<1>2. ASSUME NEW code PROVE Sound(SendHandshake(n, code), NoCommand, f)
  BY <1>1 DEF SendHandshake
<1>3. ASSUME NEW report, NEW data PROVE Sound(SendData(n, report, data), NoCommand, f)
  BY <1>1 DEF SendData
<1>4. QED
  BY <1>2, <1>3 DEF Invalid

LEMMA HostFields ==
    ASSUME NEW n, NEW f, Sound(n, NoCommand, f)
    PROVE  /\ \A v \in BOOLEAN : Sound([n EXCEPT !.suspended = v], NoCommand, f)
           /\ \A v \in BOOLEAN : Sound([n EXCEPT !.bootProtocol = v], NoCommand, f)
           /\ \A v \in IdleRates : Sound([n EXCEPT !.idleRate = v], NoCommand, f)
<1>1. n \in Worlds(n.control) /\ P!Good(n.hidp, f)
  BY DEF Sound, Typed
<1> DEFINE Other(u) == /\ u \in Worlds(u.control) /\ SameForm(n, u) /\ u.reset = n.reset
                       /\ u.leds = n.leds /\ u.cmds = n.cmds /\ u.hidp = n.hidp
<1>2. ASSUME NEW u, Other(u) PROVE Sound(u, NoCommand, f)
  <2>1. Typed(u) /\ P!Good(u.hidp, f) /\ Unseen(n.hidp, u.hidp, f)
    BY <1>1, <1>2 DEF Typed, Unseen
  <2>2. QED
    BY <1>2, <2>1, Elsewhere
<1>3. ASSUME NEW v \in BOOLEAN PROVE Other([n EXCEPT !.suspended = v])
  BY <1>1 DEF Worlds, SameForm
<1>4. ASSUME NEW v \in BOOLEAN PROVE Other([n EXCEPT !.bootProtocol = v])
  BY <1>1 DEF Worlds, SameForm
<1>5. ASSUME NEW v \in IdleRates PROVE Other([n EXCEPT !.idleRate = v])
  BY <1>1 DEF Worlds, SameForm
<1> HIDE DEF Other
<1>6. QED
  BY <1>2, <1>3, <1>4, <1>5

LEMMA OutputReport ==
    ASSUME NEW n, NEW f, Sound(n, NoCommand, f), NEW m, m.id = 1 => m.leds \in SUBSET Leds,
           NEW u, u = ProcessOutputReport(n, m)
    PROVE  Sound(u, NoCommand, f) /\ u.control = n.control
<1>1. CASE m.id # 1
  BY <1>1 DEF ProcessOutputReport
<1>2. CASE m.id = 1
  <2> DEFINE v == [n EXCEPT !.leds = m.leds]
  <2>1. n \in Worlds(n.control) /\ P!Good(n.hidp, f) /\ f \in SUBSET Mods
    BY DEF Sound, Typed
  <2>2. v \in Worlds(v.control) /\ SameForm(n, v) /\ v.reset = n.reset /\ v.cmds = n.cmds
        /\ v.hidp = n.hidp /\ v.control = n.control
    BY <1>2, <2>1 DEF Worlds, SameForm
  <2>3. u = Enqueue(v, LedsChanged)
    BY <1>2 DEF ProcessOutputReport
  <2> HIDE DEF v
  <2>4. Typed(v) /\ \A b \in Mods : LedsChanged \notin Presses(b)
    BY <2>2, NewsFacts, KindFacts DEF Typed
  <2>5. /\ Typed(u) /\ SameForm(v, u) /\ SameHost(v, u) /\ u.control = v.control
        /\ u.hidp = v.hidp /\ Longer(v.cmds, u.cmds) /\ \A C : LedsChanged \in C => Has(u.cmds, C)
    BY <2>3, <2>4, NewsFacts, EnqueueFacts
  <2>6. SameForm(n, u) /\ n.reset \subseteq u.reset /\ Unseen(n.hidp, u.hidp, f)
    BY <2>2, <2>5 DEF SameForm, SameHost, Unseen
  <2>7. \A key \in Leds : Has(u.cmds, LightsLater(key))
    BY <2>5, NewsFacts DEF LightsLater
  <2>8. Longer(n.cmds, u.cmds) /\ P!Good(u.hidp, f)
    BY <2>1, <2>2, <2>5
  <2>9. Sound(u, NoCommand, f)
    BY <2>1, <2>5, <2>6, <2>7, <2>8, NothingNow, Behind
  <2>10. QED
    BY <2>2, <2>5, <2>9
<1>3. QED
  BY <1>1, <1>2

LEMMA ResetHandled ==
    ASSUME NEW n, NEW f, Sound(n, NoCommand, f), NEW u, u = HIDPReset(n)
    PROVE  Sound(u, NoCommand, f) /\ u.control = n.control
<1> DEFINE s == HID!HIDPReset(n.hidp)
           v == Input(n, s)
           w == [v EXCEPT !.leds = {}, !.reset = {"mods", "leds"}]
<1>1. Typed(n) /\ P!Good(n.hidp, f) /\ f \in SUBSET Mods
  BY DEF Sound
<1>2. P!Good(s, f)
  BY <1>1, ResetFacts
<1>3. u = Enqueue(w, ResetHIDState)
  BY DEF HIDPReset
<1> HIDE DEF s
<1>4. Brings(n, s, f, v)
  BY <1>1, <1>2, InputFacts
<1> HIDE DEF v
<1>5. v \in Worlds(v.control) /\ SameForm(n, v) /\ v.cmds = n.cmds /\ P!Good(v.hidp, f)
      /\ v.control = n.control
  BY <1>4 DEF Brings, Typed
<1>6. w \in Worlds(w.control) /\ SameForm(v, w) /\ w.cmds = v.cmds /\ w.hidp = v.hidp
      /\ w.reset = {"mods", "leds"} /\ w.control = v.control
  BY <1>5 DEF Worlds, SameForm
<1> HIDE DEF w
<1>7. Typed(w) /\ \A b \in Mods : ResetHIDState \notin Presses(b)
  BY <1>6, NewsFacts, KindFacts DEF Typed
<1>8. /\ Typed(u) /\ SameForm(w, u) /\ SameHost(w, u) /\ u.control = w.control
      /\ u.hidp = w.hidp /\ Longer(w.cmds, u.cmds)
  BY <1>3, <1>7, NewsFacts, EnqueueFacts
<1>9. n.reset \in SUBSET {"mods", "leds"}
  BY <1>1 DEF Typed, Worlds
<1>10. SameForm(n, u) /\ u.reset = {"mods", "leds"}
  BY <1>5, <1>6, <1>8 DEF SameForm, SameHost
<1>11. n.reset \subseteq u.reset /\ "mods" \in u.reset /\ "leds" \in u.reset
  BY <1>9, <1>10
<1>12. Longer(n.cmds, u.cmds) /\ P!Good(u.hidp, f)
  BY <1>5, <1>6, <1>8
<1>13. Sound(u, NoCommand, f)
  BY <1>1, <1>8, <1>10, <1>11, <1>12, NothingNow, Behind
<1>14. QED
  BY <1>5, <1>6, <1>8, <1>13

LEMMA MotionSent ==
    ASSUME NEW n, NEW f, Sound(n, NoCommand, f), NEW v, v = Input(n, HID!SendMouse(n.hidp))
    PROVE  Sound(v, NoCommand, f) /\ v.control = n.control
<1> DEFINE s == HID!SendMouse(n.hidp)
<1>1. Typed(n) /\ P!Good(n.hidp, f)
  BY DEF Sound
<1>2. P!Good(s, f) /\ Unseen(n.hidp, s, f)
  BY <1>1, MotionFacts
<1> HIDE DEF s
<1>3. Brings(n, s, f, v)
  BY <1>1, <1>2, InputFacts DEF s
<1>4. /\ Typed(v) /\ SameForm(n, v) /\ v.reset = n.reset /\ v.leds = n.leds
      /\ v.cmds = n.cmds /\ P!Good(v.hidp, f) /\ Unseen(n.hidp, v.hidp, f)
  BY <1>2, <1>3 DEF Brings, SameHost, Unseen
<1>5. v.control = n.control
  BY <1>3 DEF Brings
<1>6. QED
  BY <1>4, <1>5, Elsewhere

LEMMA Unplugged ==
    ASSUME NEW n, NEW f, Sound(n, NoCommand, f), NEW u, u = Enqueue(n, UnplugReceived)
    PROVE  Sound(u, NoCommand, f)
<1>1. Typed(n) /\ P!Good(n.hidp, f) /\ f \in SUBSET Mods
      /\ \A b \in Mods : UnplugReceived \notin Presses(b)
  BY NewsFacts, KindFacts DEF Sound
<1>2. /\ Typed(u) /\ SameForm(n, u) /\ SameHost(n, u)
      /\ u.hidp = n.hidp /\ Longer(n.cmds, u.cmds)
  BY <1>1, NewsFacts, EnqueueFacts
<1>3. n.reset \subseteq u.reset /\ u.leds = n.leds /\ Unseen(n.hidp, u.hidp, f) /\ P!Good(u.hidp, f)
  BY <1>1, <1>2 DEF SameHost, Unseen
<1>4. QED
  BY <1>1, <1>2, <1>3, NothingNow, Behind

(* Each message of the host leaves the display right, or to be corrected.  *)
LEMMA Controlled ==
    ASSUME NEW n, NEW f, Sound(n, NoCommand, f), NEW m \in ControlMessages,
           NEW u, u = ProcessControlMessage(n, m)
    PROVE  Sound(u, NoCommand, f)
<1>1. CASE m.type \in {"Handshake", "Data", "DatC"}
  BY <1>1 DEF ProcessControlMessage
<1>2. CASE m.type = "HIDControl"
  <2>1. u = ProcessControl(n, m)
    BY <1>2 DEF ProcessControlMessage
  <2>2. CASE m.code \in {"HardReset", "SoftReset"}
    <3>1. u = SendHandshake(HIDPReset(n), "Successful")
      BY <2>1, <2>2 DEF ProcessControl
    <3>2. Sound(HIDPReset(n), NoCommand, f)
      BY ResetHandled
    <3>3. QED
      BY <3>1, <3>2, SendFacts
  <2>3. CASE m.code \in {"Suspend", "ExitSuspend"}
    <3>1. u = SendHandshake([n EXCEPT !.suspended = (m.code = "Suspend")], "Successful")
      BY <2>1, <2>3 DEF ProcessControl
    <3>2. (m.code = "Suspend") \in BOOLEAN
      OBVIOUS
    <3>3. Sound([n EXCEPT !.suspended = (m.code = "Suspend")], NoCommand, f)
      BY <3>2, HostFields
    <3>4. QED
      BY <3>1, <3>3, SendFacts
  <2>4. CASE m.code = "Unplug"
    BY <2>1, <2>4, Unplugged DEF ProcessControl
  <2>5. CASE m.code \notin {"HardReset", "SoftReset", "Suspend", "ExitSuspend", "Unplug"}
    BY <2>1, <2>5, SendFacts DEF ProcessControl
  <2>6. QED
    BY <2>2, <2>3, <2>4, <2>5
<1>3. CASE m.type = "GetReport"
  <2>1. u = ProcessGetReport(n, m)
    BY <1>3 DEF ProcessControlMessage
  <2>2. Sound(SendInputReport(n, m.id), NoCommand, f)
    <3>1. CASE m.id = 2
      BY <3>1, MotionSent, SendFacts DEF SendInputReport
    <3>2. CASE m.id # 2
      BY <3>2, SendFacts DEF SendInputReport
    <3>3. QED
      BY <3>1, <3>2
  <2>3. /\ Sound(SendOutputReport(n, m.id), NoCommand, f)
        /\ Sound(SendFeatureReport(n, m.id), NoCommand, f)
    BY SendFacts DEF SendOutputReport, SendFeatureReport
  <2>4. QED
    BY <2>1, <2>2, <2>3, SendFacts DEF ProcessGetReport
<1>4. CASE m.type = "SetReport"
  <2>1. u = ProcessSetReport(n, m)
    BY <1>4 DEF ProcessControlMessage
  <2>2. CASE m.short \/ m.report # "Output"
    BY <2>1, <2>2, SendFacts DEF ProcessSetReport
  <2>3. CASE ~ m.short /\ m.report = "Output"
    <3>1. m.leds \in SUBSET Leds
      BY <1>4, <2>3, MessageFacts
    <3>2. u = Invalid(ProcessOutputReport(n, m))
      BY <2>1, <2>3 DEF ProcessSetReport
    <3>3. QED
      BY <3>1, <3>2, OutputReport, SendFacts
  <2>4. QED
    BY <2>2, <2>3
<1>5. CASE m.type \in {"GetProtocol", "GetIdle"}
  BY <1>5, SendFacts DEF ProcessControlMessage, ProcessGetProtocol, ProcessGetIdle
<1>6. CASE m.type = "SetProtocol"
  <2>1. (m.value = 0) \in BOOLEAN
    OBVIOUS
  <2>2. Sound([n EXCEPT !.bootProtocol = (m.value = 0)], NoCommand, f)
    BY <2>1, HostFields
  <2>3. QED
    BY <1>6, <2>2, SendFacts DEF ProcessControlMessage, ProcessSetProtocol
<1>7. CASE m.type = "SetIdle"
  BY <1>7, MessageFacts, HostFields, SendFacts DEF ProcessControlMessage, ProcessSetIdle
<1>8. CASE m.type = "Reserved"
  BY <1>8, SendFacts DEF ProcessControlMessage
<1>9. QED
  BY <1>1, <1>2, <1>3, <1>4, <1>5, <1>6, <1>7, <1>8, MessageFacts

LEMMA Interrupted ==
    ASSUME NEW n, NEW f, Sound(n, NoCommand, f), NEW m \in InterruptMessages,
           NEW u, u = ProcessInterruptMessage(n, m)
    PROVE  Sound(u, NoCommand, f)
<1>1. m.type = "Data" => m.leds \in SUBSET Leds
  BY DEF InterruptMessages
<1>2. QED
  BY <1>1, OutputReport DEF ProcessInterruptMessage
-----------------------------------------------------------------------------
(* The pen and the hard keys.                                              *)
Queues(v, c, u) ==
    /\ Typed(u) /\ SameForm(v, u) /\ SameHost(v, u) /\ u.hidp = v.hidp
    /\ v.cmds \in Seq(Commands) /\ u.cmds = Append(v.cmds, c)
    /\ \A C : Has(v.cmds, C) \/ c \in C => Has(u.cmds, C)

LEMMA Appended ==
    ASSUME NEW v, Typed(v), NEW c \in Commands, NEW u, u = Enqueue(v, c)
    PROVE  Queues(v, c, u)
<1>1. v \in Worlds(v.control) /\ v.cmds \in Seq(Commands)
  BY DEF Typed, Worlds
<1>2. /\ Append(v.cmds, c) \in Seq(Commands) /\ Len(v.cmds) \in Nat
      /\ Len(Append(v.cmds, c)) = Len(v.cmds) + 1
      /\ \A i \in 1 .. Len(v.cmds) : Append(v.cmds, c)[i] = v.cmds[i]
      /\ Append(v.cmds, c)[Len(v.cmds) + 1] = c
  BY <1>1
<1>3. u = [v EXCEPT !.cmds = Append(v.cmds, c)]
  BY DEF Enqueue
<1>4. u \in Worlds(v.control) /\ u.control = v.control /\ u.cmds = Append(v.cmds, c)
      /\ u.hidp = v.hidp
  BY <1>1, <1>2, <1>3 DEF Worlds
<1>5. SameForm(v, u) /\ SameHost(v, u)
  BY <1>1, <1>3 DEF Worlds, SameForm, SameHost
<1>6. ASSUME NEW C, Has(v.cmds, C) \/ c \in C PROVE Has(u.cmds, C)
  <2>1. CASE Has(v.cmds, C)
    <3>1. PICK i \in 1 .. Len(v.cmds) : v.cmds[i] \in C
      BY <2>1 DEF Has
    <3>2. i \in 1 .. Len(u.cmds) /\ u.cmds[i] \in C
      BY <1>2, <1>4, <3>1
    <3>3. QED
      BY <3>2 DEF Has
  <2>2. CASE c \in C
    <3>1. Len(v.cmds) + 1 \in 1 .. Len(u.cmds) /\ u.cmds[Len(v.cmds) + 1] \in C
      BY <1>2, <1>4, <2>2
    <3>2. QED
      BY <3>1 DEF Has
  <2>3. QED
    BY <1>6, <2>1, <2>2
<1>7. Typed(u)
  BY <1>4 DEF Typed
<1>8. \A C : Has(v.cmds, C) \/ c \in C => Has(u.cmds, C)
  BY <1>6
<1>9. QED
  BY <1>1, <1>4, <1>5, <1>7, <1>8, Zenon DEF Queues

(* A tap changes the display, and queues the command c that corrects it.   *)
LEMMA Tapped ==
    ASSUME NEW n, NEW f, Sound(n, NoCommand, f), NEW c \in Commands,
           NEW v, Typed(v), v.form = n.form, v.open = n.open, v.screen = n.screen,
           v.visible = n.visible, v.plain = n.plain, v.cmds = n.cmds, v.hidp = n.hidp,
           v.leds = n.leds, v.reset = n.reset, v.label = n.label, v.state = n.state,
           v.missed = n.missed,
           v.pushed = n.pushed \/ c \in Selects,
           \A e \in Displays : \/ v.value[e] = n.value[e]
                               \/ c \in LightsLater(e.key) /\ c \in ModsLater(e.key),
           \A b \in Mods \ v.held : c \in Lifts(b) \/ (c \notin Presses(b) /\ b \notin n.held),
           NEW u, u = Enqueue(v, c)
    PROVE  Sound(u, NoCommand, f)
<1>1. /\ Typed(u) /\ SameForm(v, u) /\ SameHost(v, u) /\ u.hidp = v.hidp
      /\ v.cmds \in Seq(Commands) /\ u.cmds = Append(v.cmds, c)
      /\ \A C : Has(v.cmds, C) \/ c \in C => Has(u.cmds, C)
  <2>1. Queues(v, c, u)
    BY Appended
  <2>2. QED
    BY <2>1 DEF Queues
<1>2. Screened(u, NoCommand)
  BY <1>1, NothingNow DEF Sound, Screened, ScreenRight, Faces, Soon, SameForm
<1>3. Lit(u, NoCommand)
  <2> SUFFICES ASSUME Faces(u), "leds" \notin u.reset PROVE LightsRight(u, NoCommand)
    BY DEF Lit
  <2>1. LightsRight(n, NoCommand)
    BY <1>1 DEF Sound, Lit, Faces, SameForm, SameHost
  <2>2. \A e \in On(n.screen) \cap LedButtons :
            n.value[e] = (e.key \in n.leds) \/ Soon(n, NoCommand, LightsLater(e.key))
    BY <2>1 DEF LightsRight
  <2>3. ASSUME NEW e \in On(u.screen) \cap LedButtons
        PROVE  u.value[e] = (e.key \in u.leds) \/ Has(u.cmds, LightsLater(e.key))
    <3>1. e \in Displays /\ e \in On(n.screen) \cap LedButtons
      BY <1>1, ButtonFacts DEF SameForm
    <3>2. n.value[e] = (e.key \in n.leds) \/ Has(n.cmds, LightsLater(e.key))
      BY <2>2, <3>1, NothingNow DEF Soon
    <3>3. v.value[e] = n.value[e] \/ c \in LightsLater(e.key)
      BY <3>1
    <3>4. u.value[e] = v.value[e] /\ u.leds = n.leds
      BY <1>1 DEF SameForm, SameHost
    <3>5. QED
      BY <1>1, <3>2, <3>3, <3>4
  <2>4. QED
    BY <2>3 DEF LightsRight, Soon
<1>4. Stated(u)
  BY <1>1 DEF Sound, Stated, SameForm
<1>5. Modified(u, NoCommand, f)
  <2> SUFFICES ASSUME Faces(u), "mods" \notin u.reset PROVE ModsRight(u, NoCommand, f)
    BY DEF Modified
  <2>1. ModsRight(n, NoCommand, f)
    BY <1>1 DEF Sound, Modified, Faces, SameForm, SameHost
  <2>2. ASSUME NEW e \in ModButtons \ u.missed, e.key \notin f, ~ Has(u.cmds, ModsLater(e.key))
        PROVE  Right(u, e)
    <3>1. e \in Displays /\ e \in ModButtons \ n.missed
      BY <1>1, <2>2, ButtonFacts DEF SameForm
    <3>2. ~ Has(n.cmds, ModsLater(e.key)) /\ c \notin ModsLater(e.key)
      BY <1>1, <2>2
    <3>3. Right(n, e)
      BY <2>1, <2>2, <3>1, <3>2, NothingNow DEF ModsRight, Soon
    <3>4. u.value[e] = n.value[e] /\ u.state = n.state /\ u.hidp = n.hidp
      BY <1>1, <3>1, <3>2 DEF SameForm
    <3>5. QED
      BY <3>3, <3>4 DEF Right, HIDPModifiers, HIDPModifierState
  <2>3. QED
    BY <2>2 DEF ModsRight, Soon
<1>6. Lifted(u, NoCommand, f)
  <2> SUFFICES ASSUME NEW b \in Mods \ u.held
               PROVE  /\ b \in f => Soon(u, NoCommand, Lifts(b))
                      /\ NoCommand \in Presses(b) => Has(u.cmds, Lifts(b))
                      /\ \A i \in 1 .. Len(u.cmds) : u.cmds[i] \in Presses(b) =>
                             \E j \in 1 .. Len(u.cmds) : i < j /\ u.cmds[j] \in Lifts(b)
    BY DEF Lifted
  <2>1. /\ Len(n.cmds) \in Nat /\ Len(u.cmds) = Len(n.cmds) + 1
        /\ \A i \in 1 .. Len(n.cmds) : u.cmds[i] = n.cmds[i]
        /\ u.cmds[Len(n.cmds) + 1] = c
    BY <1>1
  <2>2. b \in Mods \ v.held
    BY <1>1 DEF SameForm
  <2>3. CASE c \in Lifts(b)
    <3>1. Has(u.cmds, Lifts(b))
      BY <1>1, <2>3
    <3>2. c \notin Presses(b)
      BY <2>3 DEF Lifts, Presses
    <3>3. ASSUME NEW i \in 1 .. Len(u.cmds), u.cmds[i] \in Presses(b)
          PROVE  \E j \in 1 .. Len(u.cmds) : i < j /\ u.cmds[j] \in Lifts(b)
      <4>1. i < Len(n.cmds) + 1 /\ Len(n.cmds) + 1 \in 1 .. Len(u.cmds)
        BY <2>1, <3>2, <3>3
      <4>2. QED
        BY <2>1, <2>3, <4>1
    <3>4. QED
      BY <3>1, <3>3, NothingNow DEF Soon
  <2>4. CASE c \notin Presses(b) /\ b \notin n.held
    <3>1. /\ b \in f => Has(n.cmds, Lifts(b))
          /\ \A i \in 1 .. Len(n.cmds) : n.cmds[i] \in Presses(b) =>
                 \E j \in 1 .. Len(n.cmds) : i < j /\ n.cmds[j] \in Lifts(b)
      BY <2>4, NothingNow DEF Sound, Lifted, Soon
    <3>2. b \in f => Has(u.cmds, Lifts(b))
      BY <1>1, <3>1
    <3>3. ASSUME NEW i \in 1 .. Len(u.cmds), u.cmds[i] \in Presses(b)
          PROVE  \E j \in 1 .. Len(u.cmds) : i < j /\ u.cmds[j] \in Lifts(b)
      <4>1. i \in 1 .. Len(n.cmds) /\ n.cmds[i] \in Presses(b)
        BY <2>1, <2>4, <3>3
      <4>2. PICK j \in 1 .. Len(n.cmds) : i < j /\ n.cmds[j] \in Lifts(b)
        BY <3>1, <4>1
      <4>3. j \in 1 .. Len(u.cmds) /\ u.cmds[j] = n.cmds[j]
        BY <2>1
      <4>4. QED
        BY <4>2, <4>3
    <3>4. QED
      BY <3>2, <3>3, NothingNow DEF Soon
  <2>5. QED
    BY <2>2, <2>3, <2>4
<1>7. f \in SUBSET Mods /\ P!Good(u.hidp, f)
  BY <1>1 DEF Sound
<1>8. QED
  BY <1>1, <1>2, <1>3, <1>4, <1>5, <1>6, <1>7 DEF Sound
-----------------------------------------------------------------------------
(* The steps.                                                              *)
LEMMA Delivered ==
    ASSUME NEW u, NEW g \in SUBSET Mods, Sound(u, NoCommand, g), Becomes(u)
    PROVE  IInv'
<1>1. k' = [u EXCEPT !.control = <<>>]
  BY DEF Becomes
<1>2. Sound(k', NoCommand, g) /\ k'.control = <<>>
  BY <1>1, Said
<1>3. QED
  BY <1>2 DEF IInv

LEMMA FreshWorld == Typed(Fresh) /\ P!Good(Fresh.hidp, {})
<1> DEFINE rest == [b \in Mods |-> "Released"]
           value == [e \in Displays |-> FALSE]
           label == [e \in ModButtons |-> FALSE]
           none == <<>>
           commands == Seq(Commands)
           h == P!NewHIDP
<1>1. StickyTime \in Nat /\ 0 \in IdleRates
  BY HIDControlAssumption
<1>2. rest \in [Mods -> P!ModStates]
  BY DEF P!ModStates
<1>3. h \in P!Call
  <2>1. none \in P!KeyBuffer /\ none \in Seq(P!ReportType) /\ none \in Seq(P!MouseReport)
    BY HIDControlAssumption DEF P!KeyBuffer
  <2>2. h = [modifiers |-> {}, modstate |-> rest, modtimer |-> 0, pressed |-> none,
             buttonState |-> {}, X |-> 0, posChanged |-> FALSE,
             keyboard |-> none, mouse |-> none]
    BY DEF P!NewHIDP
  <2>3. 0 \in 0 .. StickyTime
    BY <1>1
  <2> HIDE DEF rest, none, h
  <2>4. QED
    BY <1>2, <2>1, <2>2, <2>3 DEF P!Call
<1>4. h.modstate = rest /\ h.modifiers = {}
  BY DEF P!NewHIDP
<1>5. \A b \in Mods : rest[b] = "Released"
  OBVIOUS
<1>6. P!Good(h, {})
  <2> HIDE DEF rest, h
  <2>1. P!Latched(h, {})
    BY <1>4, <1>5 DEF P!Latched, P!Consistent
  <2>2. P!Sticky(h) = {}
    BY <1>4, <1>5 DEF P!Sticky
  <2>3. QED
    BY <1>3, <2>1, <2>2 DEF P!Good, P!Timed
<1>7. value \in [Displays -> BOOLEAN] /\ label \in [ModButtons -> BOOLEAN] /\ none \in commands
      /\ "Alpha" \in Screens
  BY DEF Screens
<1>8. Fresh =
        [hidp |-> h, leds |-> {}, suspended |-> FALSE, bootProtocol |-> FALSE, idleRate |-> 0,
         control |-> none, cmds |-> none, reset |-> {}, missed |-> {}, plain |-> {}, held |-> {},
         form |-> "Mouse", goal |-> "none", open |-> TRUE,
         screen |-> "Alpha", visible |-> {}, pushed |-> "Alpha",
         value |-> value, label |-> label, state |-> label]
  BY SameKeys DEF Fresh
<1> HIDE DEF value, label, none, commands, h
<1>9. Fresh \in Worlds(none) /\ Fresh.control = none /\ Fresh.hidp = h
  <2>1. h \in P!Call /\ none \in Seq(Commands)
    BY <1>3, <1>7 DEF commands
  <2>2. QED
    BY <1>1, <1>7, <1>8, <2>1 DEF Worlds
<1>10. QED
  BY <1>6, <1>9 DEF Typed

LEMMA FreshSound == KeyboardInit => IInv
<1> SUFFICES ASSUME KeyboardInit PROVE IInv
  OBVIOUS
<1>1. k = Fresh
  BY DEF KeyboardInit
<1>2. Typed(k) /\ P!Good(k.hidp, {})
  BY <1>1, FreshWorld
<1>3. /\ k.form = "Mouse" /\ k.cmds = <<>> /\ k.held = {} /\ k.control = <<>>
      /\ \A e \in ModButtons : k.label[e] = FALSE /\ k.state[e] = FALSE
  BY <1>1 DEF Fresh
<1>4. Screened(k, NoCommand) /\ Lit(k, NoCommand) /\ Modified(k, NoCommand, {})
  BY <1>3 DEF Screened, Lit, Modified, Faces
<1>5. Stated(k)
  BY <1>3 DEF Stated
<1>6. Lifted(k, NoCommand, {})
  <2>1. Len(k.cmds) = 0
    BY <1>3
  <2>2. \A i \in 1 .. Len(k.cmds) : FALSE
    BY <2>1
  <2>3. QED
    BY <2>2, NothingNow DEF Lifted
<1>7. QED
  BY <1>2, <1>3, <1>4, <1>5, <1>6 DEF IInv, Sound

LEMMA ExecuteStep == ASSUME IInv, Execute PROVE IInv'
<1> DEFINE n == [k EXCEPT !.cmds = Tail(@)]
           x == Head(k.cmds)
           u == Handle(n, x)
<1>1. PICK f \in SUBSET Mods : Sound(k, NoCommand, f)
  BY DEF IInv
<1>2. Sound(n, x, f) /\ x \in Commands
  BY <1>1, Taken DEF Execute
<1>3. Becomes(u)
  BY DEF Execute
<1> HIDE DEF n, x
<1>4. PICK g \in SUBSET Mods : Sound(u, NoCommand, g)
  BY <1>2, Handled
<1>5. QED
  BY <1>3, <1>4, Delivered

LEMMA FormStep == ASSUME IInv, Load \/ Open \/ Redraw PROVE IInv'
<1>1. PICK f \in SUBSET Mods : Sound(k, NoCommand, f)
  BY DEF IInv
<1>2. CASE Load
  BY <1>1, <1>2, Loaded, Delivered DEF Load
<1>3. CASE Open \/ Redraw
  BY <1>1, <1>3, Opened, Delivered DEF Open, Redraw
<1>4. QED
  BY <1>2, <1>3

LEMMA HostStep ==
    ASSUME IInv, \/ \E m \in Messages : HostControls(m)
                 \/ \E m \in InterruptMessages : HostInterrupts(m)
    PROVE  IInv'
<1>1. PICK f \in SUBSET Mods : Sound(k, NoCommand, f)
  BY DEF IInv
<1>2. ASSUME NEW m \in Messages, HostControls(m) PROVE IInv'
  <2>1. Sound(ProcessControlMessage(k, m), NoCommand, f)
    BY <1>1, KeyboardFormAssumption, Controlled
  <2>2. QED
    BY <1>2, <2>1, Delivered DEF HostControls
<1>3. ASSUME NEW m \in InterruptMessages, HostInterrupts(m) PROVE IInv'
  <2>1. Sound(ProcessInterruptMessage(k, m), NoCommand, f)
    BY <1>1, Interrupted
  <2>2. QED
    BY <1>3, <2>1, Delivered DEF HostInterrupts
<1>4. QED
  BY <1>2, <1>3

LEMMA StickyEnded ==
    ASSUME NEW n, NEW f, Sound(n, NoCommand, f), NEW u, u = StickyTimer(n)
    PROVE  Sound(u, NoCommand, f)
<1> DEFINE s == HID!StickyTimer(n.hidp)
           used == HID!Sticky(n.hidp) # {}
           v == IF used THEN Enqueue(n, ModifiersChanged) ELSE n
<1>1. Typed(n) /\ P!Good(n.hidp, f) /\ f \in SUBSET Mods /\ n.cmds \in Seq(Commands)
  BY DEF Sound, Typed, Worlds
<1>2. P!Good(s, f) /\ (~ used => Unseen(n.hidp, s, f))
  BY <1>1, TimerFacts
<1>3. u = Input(v, s)
  BY DEF StickyTimer
<1>4. /\ Typed(v) /\ SameForm(n, v) /\ SameHost(n, v) /\ Longer(n.cmds, v.cmds)
      /\ used => Has(v.cmds, {ModifiersChanged})
  <2>1. CASE used
    <3>1. \A b \in Mods : ModifiersChanged \notin Presses(b)
      BY NewsFacts, KindFacts
    <3>2. QED
      BY <1>1, <2>1, <3>1, NewsFacts, EnqueueFacts
  <2>2. CASE ~ used
    BY <1>1, <2>2, Unchanged DEF SameForm, SameHost
  <2>3. QED
    BY <2>1, <2>2
<1> HIDE DEF s, v, used
<1>5. Brings(v, s, f, u)
  BY <1>2, <1>3, <1>4, InputFacts
<1>6. /\ Typed(u) /\ SameForm(n, u) /\ u.reset = n.reset /\ u.leds = n.leds
      /\ u.cmds = v.cmds /\ P!Good(u.hidp, f) /\ Unseen(s, u.hidp, f)
  BY <1>4, <1>5 DEF Brings, SameForm, SameHost
<1>7. n.reset \subseteq u.reset /\ Longer(n.cmds, u.cmds)
  BY <1>4, <1>6
<1>8. \/ \E c \in Commands : c.cmd = "ModifiersChanged" /\ Has(u.cmds, {c})
      \/ Unseen(n.hidp, u.hidp, f)
  <2>1. CASE used
    BY <1>4, <1>6, <2>1, NewsFacts
  <2>2. CASE ~ used
    BY <1>2, <1>6, <2>2 DEF Unseen
  <2>3. QED
    BY <2>1, <2>2
<1>9. QED
  BY <1>1, <1>6, <1>7, <1>8, NothingNow, Behind

LEMMA TickStep == ASSUME IInv, Tick PROVE IInv'
<1>1. PICK f \in SUBSET Mods : Sound(k, NoCommand, f)
  BY DEF IInv
<1>2. CASE k.hidp.modtimer = 1
  BY <1>1, <1>2, StickyEnded, Delivered DEF Tick
<1>3. CASE k.hidp.modtimer # 1
  <2> DEFINE t == [k.hidp EXCEPT !.modtimer = @ - 1]
             u == [k EXCEPT !.hidp = t]
  <2>1. k \in Worlds(k.control) /\ P!Good(k.hidp, f) /\ k.hidp.modtimer > 0
    BY <1>1 DEF Sound, Typed, Tick
  <2>2. P!Good(t, f) /\ Unseen(k.hidp, t, f)
    BY <1>3, <2>1, ClockFacts
  <2>3. Becomes(u)
    BY <1>3, <2>1 DEF Tick, Worlds
  <2> HIDE DEF t
  <2>4. t \in P!Call
    BY <2>2 DEF P!Good
  <2>5. /\ u \in Worlds(u.control) /\ SameForm(k, u) /\ u.reset = k.reset /\ u.leds = k.leds
        /\ u.cmds = k.cmds /\ u.hidp = t
    BY <2>1, <2>4 DEF Worlds, SameForm
  <2> HIDE DEF u
  <2>6. Sound(u, NoCommand, f)
    BY <1>1, <2>2, <2>5, Elsewhere DEF Typed
  <2>7. QED
    BY <2>3, <2>6, Delivered
<1>4. QED
  BY <1>2, <1>3
LEMMA TapFields ==
    ASSUME NEW n, Typed(n)
    PROVE  /\ n \in Worlds(n.control) /\ n.held \in SUBSET Mods
           /\ n.value \in [Displays -> BOOLEAN]
  BY DEF Typed, Worlds

LEMMA ClickFacts ==
    ASSUME NEW key \in Mods \cup Keys, NEW c, c = [cmd |-> "Keyboard", action |-> "Click", key |-> key]
    PROVE  /\ c \in Commands /\ c \in LightsLater(key) /\ c \in ModsLater(key)
           /\ \A b : c \notin Presses(b)
<1>1. c \in Commands
  BY DEF Commands
<1>2. QED
  BY <1>1 DEF LightsLater, ModsLater, Presses

LEMMA TapDisplayStep == ASSUME IInv, NEW e \in Displays, TapDisplay(e) PROVE IInv'
<1> DEFINE c == [cmd |-> "Keyboard", action |-> "Click", key |-> e.key]
           value == [k.value EXCEPT ![e] = ~ @]
           v == [k EXCEPT !.value = value]
           u == Enqueue(v, c)
<1>1. PICK f \in SUBSET Mods : Sound(k, NoCommand, f)
  BY DEF IInv
<1>2. Typed(k)
  BY <1>1 DEF Sound
<1>3. k \in Worlds(k.control) /\ k.value \in [Displays -> BOOLEAN]
  BY <1>2, TapFields
<1>4. value \in [Displays -> BOOLEAN] /\ \A d \in Displays : d # e => value[d] = k.value[d]
  BY <1>3
<1>5. Becomes(u)
  BY DEF TapDisplay
<1>6. e.key \in Mods \cup Keys
  BY ButtonFacts, HIDControlAssumption
<1>7. c \in Commands /\ c \in LightsLater(e.key) /\ c \in ModsLater(e.key) /\ \A b : c \notin Presses(b)
  BY <1>6, ClickFacts
<1> HIDE DEF c, value
<1>8. /\ v \in Worlds(k.control) /\ v.control = k.control /\ v.value = value
      /\ v.form = k.form /\ v.open = k.open /\ v.screen = k.screen
      /\ v.visible = k.visible /\ v.plain = k.plain /\ v.cmds = k.cmds /\ v.hidp = k.hidp
      /\ v.leds = k.leds /\ v.reset = k.reset /\ v.label = k.label /\ v.state = k.state
      /\ v.missed = k.missed /\ v.pushed = k.pushed /\ v.held = k.held
  BY <1>3, <1>4 DEF Worlds
<1> HIDE DEF v
<1>9. /\ Typed(v)
      /\ \A d \in Displays : \/ v.value[d] = k.value[d]
                             \/ c \in LightsLater(d.key) /\ c \in ModsLater(d.key)
      /\ \A b \in Mods \ v.held : c \in Lifts(b) \/ (c \notin Presses(b) /\ b \notin k.held)
  BY <1>4, <1>7, <1>8 DEF Typed
<1>10. Sound(u, NoCommand, f)
  BY <1>1, <1>7, <1>8, <1>9, Tapped
<1>11. QED
  BY <1>5, <1>10, Delivered

LEMMA TapKeyStep == ASSUME IInv, NEW key \in Keys \ Leds, TapKey(key) PROVE IInv'
<1> DEFINE c == [cmd |-> "Keyboard", action |-> "Click", key |-> key]
<1>1. PICK f \in SUBSET Mods : Sound(k, NoCommand, f)
  BY DEF IInv
<1>2. Typed(k)
  BY <1>1 DEF Sound
<1>3. Becomes(Enqueue(k, c))
  BY DEF TapKey
<1>4. c \in Commands /\ \A b : c \notin Presses(b)
  BY ClickFacts
<1> HIDE DEF c
<1>5. Sound(Enqueue(k, c), NoCommand, f)
  BY <1>1, <1>2, <1>4, Tapped
<1>6. QED
  BY <1>3, <1>5, Delivered

LEMMA TapScreenStep == ASSUME IInv, NEW screen \in Screens, TapScreen(screen) PROVE IInv'
<1> DEFINE c == [cmd |-> "Select", screen |-> screen]
           v == [k EXCEPT !.pushed = screen]
<1>1. PICK f \in SUBSET Mods : Sound(k, NoCommand, f)
  BY DEF IInv
<1>2. k \in Worlds(k.control)
  BY <1>1 DEF Sound, Typed
<1>3. Becomes(Enqueue(v, c))
  BY DEF TapScreen
<1>4. c \in Commands /\ c.cmd = "Select"
  BY DEF Commands
<1> HIDE DEF c
<1>5. c \in Selects /\ \A b : c \notin Presses(b)
  BY <1>4 DEF Selects, Presses
<1>6. /\ v \in Worlds(k.control) /\ v.control = k.control /\ v.value = k.value
      /\ v.form = k.form /\ v.open = k.open /\ v.screen = k.screen
      /\ v.visible = k.visible /\ v.plain = k.plain /\ v.cmds = k.cmds /\ v.hidp = k.hidp
      /\ v.leds = k.leds /\ v.reset = k.reset /\ v.label = k.label /\ v.state = k.state
      /\ v.missed = k.missed /\ v.held = k.held
  BY <1>2 DEF Worlds
<1> HIDE DEF v
<1>7. Typed(v) /\ \A b \in Mods \ v.held : c \in Lifts(b) \/ (c \notin Presses(b) /\ b \notin k.held)
  BY <1>5, <1>6 DEF Typed
<1>8. Sound(Enqueue(v, c), NoCommand, f)
  BY <1>1, <1>4, <1>5, <1>6, <1>7, Tapped
<1>9. QED
  BY <1>3, <1>8, Delivered

LEMMA HardModifierStep == ASSUME IInv, NEW b \in HardMods, HardModifier(b) PROVE IInv'
<1> DEFINE action == IF b \in k.held THEN "Release" ELSE "Press"
           c == [cmd |-> "HardKey", action |-> action, key |-> b]
           held == IF b \in k.held THEN k.held \ {b} ELSE k.held \cup {b}
           v == [k EXCEPT !.held = held]
<1>1. PICK f \in SUBSET Mods : Sound(k, NoCommand, f)
  BY DEF IInv
<1>2. Typed(k) /\ b \in Mods
  BY <1>1, KeyboardFormAssumption DEF Sound
<1>3. k \in Worlds(k.control) /\ k.held \in SUBSET Mods
  BY <1>2, TapFields
<1>4. Becomes(Enqueue(v, c))
  BY <1>3 DEF HardModifier, Worlds
<1>5. c \in Commands /\ c.cmd = "HardKey" /\ c.action = action /\ c.key = b
  BY <1>2 DEF Commands
<1> HIDE DEF c
<1>6. /\ b \in k.held => c \in Lifts(b)
      /\ \A d : d # b => c \notin Presses(d)
  BY <1>5 DEF Lifts, Presses
<1>7. /\ held \in SUBSET Mods
      /\ \A d \in Mods \ held : c \in Lifts(d) \/ (c \notin Presses(d) /\ d \notin k.held)
  BY <1>2, <1>3, <1>6
<1> HIDE DEF held
<1>8. /\ v \in Worlds(k.control) /\ v.control = k.control /\ v.value = k.value
      /\ v.form = k.form /\ v.open = k.open /\ v.screen = k.screen
      /\ v.visible = k.visible /\ v.plain = k.plain /\ v.cmds = k.cmds /\ v.hidp = k.hidp
      /\ v.leds = k.leds /\ v.reset = k.reset /\ v.label = k.label /\ v.state = k.state
      /\ v.missed = k.missed /\ v.pushed = k.pushed /\ v.held = held
  BY <1>3, <1>7 DEF Worlds
<1> HIDE DEF v
<1>9. Typed(v) /\ \A d \in Mods \ v.held : c \in Lifts(d) \/ (c \notin Presses(d) /\ d \notin k.held)
  BY <1>7, <1>8 DEF Typed
<1>10. Sound(Enqueue(v, c), NoCommand, f)
  BY <1>1, <1>5, <1>8, <1>9, Tapped
<1>11. QED
  BY <1>4, <1>10, Delivered

LEMMA HardSwitchStep == ASSUME IInv, NEW key \in {"Hard1", "Hard2"}, HardSwitch(key) PROVE IInv'
<1> DEFINE c == [cmd |-> "HardKey", action |-> "Press", key |-> key]
<1>1. PICK f \in SUBSET Mods : Sound(k, NoCommand, f)
  BY DEF IInv
<1>2. Typed(k)
  BY <1>1 DEF Sound
<1>3. Becomes(Enqueue(k, c))
  BY DEF HardSwitch
<1>4. c \in Commands /\ c.key = key
  BY DEF Commands
<1>5. \A b \in Mods : b # key
  BY HIDControlAssumption DEF HID!AllMods
<1> HIDE DEF c
<1>6. \A b \in Mods : c \notin Presses(b)
  BY <1>4, <1>5 DEF Presses
<1>7. Sound(Enqueue(k, c), NoCommand, f)
  BY <1>1, <1>2, <1>4, <1>6, Tapped
<1>8. QED
  BY <1>3, <1>7, Delivered

LEMMA NextKeeps == IInv /\ [Next]_k => IInv'
<1> SUFFICES ASSUME IInv, [Next]_k PROVE IInv'
  OBVIOUS
<1>1. CASE Execute
  BY <1>1, ExecuteStep
<1>2. CASE Load \/ Open \/ Redraw
  BY <1>2, FormStep
<1>3. CASE Tick
  BY <1>3, TickStep
<1>4. CASE \E e \in Displays : TapDisplay(e)
  BY <1>4, TapDisplayStep
<1>5. CASE \E key \in Keys \ Leds : TapKey(key)
  BY <1>5, TapKeyStep
<1>6. CASE \E screen \in Screens : TapScreen(screen)
  BY <1>6, TapScreenStep
<1>7. CASE \E b \in HardMods : HardModifier(b)
  BY <1>7, HardModifierStep
<1>8. CASE \E key \in {"Hard1", "Hard2"} : HardSwitch(key)
  BY <1>8, HardSwitchStep
<1>9. CASE \/ \E m \in Messages : HostControls(m)
           \/ \E m \in InterruptMessages : HostInterrupts(m)
  BY <1>9, HostStep
<1>10. CASE UNCHANGED k
  BY <1>10 DEF IInv
<1>11. QED
  BY <1>1, <1>2, <1>3, <1>4, <1>5, <1>6, <1>7, <1>8, <1>9, <1>10 DEF Next
-----------------------------------------------------------------------------
(* The host is answered.                                                   *)
Silent(m) == \/ m.type \in {"Handshake", "Data", "DatC"}
             \/ m.type = "HIDControl" /\ m.code = "Unplug"

(* The answer of w to m, which leaves n, is a, and leaves v but for it.    *)
Answer(w, n, m, v, a) ==
    /\ Typed(v) /\ v.control = <<>> /\ n = [v EXCEPT !.control = Append(@, a)]
    /\ Refused(a) /\ (m.type = "SetReport" => m.report # "Output") => v = w

LEMMA AnswerFacts ==
    ASSUME NEW w, NEW n, NEW m, NEW v, NEW a, Answer(w, n, m, v, a)
    PROVE  /\ Len(n.control) = 1 /\ n.control[1] = a /\ [n EXCEPT !.control = <<>>] = v
           /\ n.idleRate = v.idleRate /\ n.bootProtocol = v.bootProtocol
<1> DEFINE one == Append(v.control, a)
           none == <<>>
           r == [n EXCEPT !.control = none]
<1>1. /\ v \in Worlds(none) /\ v.control = none /\ n = [v EXCEPT !.control = one]
      /\ r = [n EXCEPT !.control = none]
  BY DEF Answer, Typed
<1>2. Len(one) = 1 /\ one[1] = a
  BY <1>1
<1> HIDE DEF one, none, r
<1>3. n.control = one /\ n.idleRate = v.idleRate /\ n.bootProtocol = v.bootProtocol
  BY <1>1 DEF Worlds
<1>4. r = v
  <2>1. DOMAIN v = DOMAIN n /\ DOMAIN n = DOMAIN r
    BY <1>1
  <2>2. \A x \in DOMAIN v : r[x] = v[x]
    BY <1>1 DEF Worlds
  <2>3. r = [x \in DOMAIN r |-> r[x]] /\ v = [x \in DOMAIN v |-> v[x]]
    BY <1>1 DEF Worlds
  <2>4. QED
    BY <2>1, <2>2, <2>3
<1>5. Len(n.control) = 1 /\ n.control[1] = a
  BY <1>2, <1>3
<1>6. [n EXCEPT !.control = <<>>] = v
  BY <1>4, Zenon DEF none, r
<1>7. QED
  BY <1>3, <1>5, <1>6, Zenon

LEMMA InvalidAnswer ==
    ASSUME NEW w, Typed(w), w.control = <<>>, NEW m, NEW n, n = Invalid(w)
    PROVE  \E v, a : Answer(w, n, m, v, a)
<1> DEFINE a == [type |-> "Handshake", code |-> "ErrInvalidParameter"]
<1>1. n = [w EXCEPT !.control = Append(@, a)]
  BY DEF Invalid, SendHandshake
<1>2. Answer(w, n, m, w, a)
  BY <1>1 DEF Answer
<1>3. QED
  BY <1>2

LEMMA SuccessAnswer ==
    ASSUME NEW w, NEW v, Typed(v), v.control = <<>>, NEW m, NEW n, n = SendHandshake(v, "Successful")
    PROVE  \E a : Answer(w, n, m, v, a)
<1> DEFINE a == [type |-> "Handshake", code |-> "Successful"]
<1>1. n = [v EXCEPT !.control = Append(@, a)]
  BY DEF SendHandshake
<1>2. ~ Refused(a)
  BY DEF Refused
<1>3. Answer(w, n, m, v, a)
  BY <1>1, <1>2 DEF Answer
<1>4. QED
  BY <1>3

Tells(w, n, m, v, data) == \E a : a.data = data /\ Answer(w, n, m, v, a)

LEMMA DataAnswer ==
    ASSUME NEW w, NEW v, Typed(v), v.control = <<>>, NEW report, NEW data, NEW m,
           NEW n, n = SendData(v, report, data)
    PROVE  Tells(w, n, m, v, data)
<1> DEFINE a == [type |-> "Data", report |-> report, data |-> data]
<1>1. n = [v EXCEPT !.control = Append(@, a)]
  BY DEF SendData
<1>2. ~ Refused(a) /\ a.data = data
  BY DEF Refused
<1>3. Answer(w, n, m, v, a)
  BY <1>1, <1>2 DEF Answer
<1>4. QED
  BY <1>2, <1>3 DEF Tells

LEMMA DataTold ==
    ASSUME NEW w, NEW n, NEW m, NEW v, NEW data, Tells(w, n, m, v, data)
    PROVE  n.control[1].data = data /\ \E a : Answer(w, n, m, v, a)
  BY AnswerFacts DEF Tells

(* An answer with data is not mistaken for none.                           *)
LEMMA DataSent ==
    ASSUME NEW w, w.control = <<>>, NEW v, Typed(v), v.control = <<>>, NEW report, NEW data
    PROVE  SendData(v, report, data) # w
<1>1. PICK a : Answer(w, SendData(v, report, data), [type |-> "GetReport"], v, a)
  BY DataAnswer, DataTold
<1>2. Len(SendData(v, report, data).control) = 1
  BY <1>1, AnswerFacts
<1>3. Len(w.control) = 0
  OBVIOUS
<1>4. QED
  BY <1>2, <1>3

LEMMA ReportAnswered ==
    ASSUME NEW w, NEW f, Sound(w, NoCommand, f), w.control = <<>>,
           NEW m, m.type = "GetReport", NEW n, n = ProcessGetReport(w, m)
    PROVE  /\ \E v, a : Answer(w, n, m, v, a)
           /\ ~ m.short /\ m.report = "Input" /\ m.id = 1 =>
                  n.control[1].data = HID!KeyReport(w.hidp.modifiers, w.hidp.pressed)
<1>1. Typed(w)
  BY DEF Sound
<1>2. CASE m.short
  BY <1>1, <1>2, InvalidAnswer DEF ProcessGetReport
<1>3. CASE ~ m.short
  <2> DEFINE answer == CASE m.report = "Input"   -> SendInputReport(w, m.id)
                         [] m.report = "Output"  -> SendOutputReport(w, m.id)
                         [] m.report = "Feature" -> SendFeatureReport(w, m.id)
                         [] OTHER                -> w
  <2>1. n = IF answer = w THEN Invalid(w) ELSE answer
    BY <1>3 DEF ProcessGetReport
  <2>2. \/ answer = w
        \/ \E v, report, data : /\ Typed(v) /\ v.control = <<>>
                                /\ answer = SendData(v, report, data)
    <3>1. CASE m.report = "Input" /\ m.id = 2
      <4>1. PICK data : answer = SendData(Input(w, HID!SendMouse(w.hidp)), "Input", data)
        BY <3>1 DEF SendInputReport
      <4>2. Typed(Input(w, HID!SendMouse(w.hidp))) /\ Input(w, HID!SendMouse(w.hidp)).control = <<>>
        BY MotionSent DEF Sound
      <4>3. QED
        BY <4>1, <4>2
    <3>2. CASE m.report = "Input" /\ m.id # 2
      BY <1>1, <3>2 DEF SendInputReport
    <3>3. CASE m.report # "Input"
      BY <1>1, <3>3 DEF SendOutputReport, SendFeatureReport
    <3>4. QED
      BY <3>1, <3>2, <3>3
  <2>3. ASSUME m.report = "Input", m.id = 1
        PROVE  answer = SendData(w, "Input", HID!KeyReport(w.hidp.modifiers, w.hidp.pressed))
    BY <2>3 DEF SendInputReport
  <2> HIDE DEF answer
  <2>4. CASE answer = w
    <3>1. n = Invalid(w)
      BY <2>1, <2>4
    <3>2. ~ (m.report = "Input" /\ m.id = 1)
      BY <1>1, <2>3, <2>4, DataSent
    <3>3. QED
      BY <1>1, <3>1, <3>2, InvalidAnswer
  <2>5. CASE answer # w
    <3>1. n = answer
      BY <2>1, <2>5
    <3>2. PICK v, report, data : /\ Typed(v) /\ v.control = <<>>
                                 /\ answer = SendData(v, report, data)
      BY <2>2, <2>5
    <3>3. \E a : Answer(w, n, m, v, a)
      BY <3>1, <3>2, DataAnswer, DataTold
    <3>4. ASSUME m.report = "Input", m.id = 1
          PROVE  n.control[1].data = HID!KeyReport(w.hidp.modifiers, w.hidp.pressed)
      <4>1. n = SendData(w, "Input", HID!KeyReport(w.hidp.modifiers, w.hidp.pressed))
        BY <2>3, <3>1, <3>4
      <4>2. Tells(w, n, m, w, HID!KeyReport(w.hidp.modifiers, w.hidp.pressed))
        BY <1>1, <4>1, DataAnswer
      <4>3. QED
        BY <4>2, DataTold
    <3>5. QED
      BY <3>3, <3>4
  <2>6. QED
    BY <2>4, <2>5
<1>4. QED
  BY <1>2, <1>3

LEMMA SetReportAnswered ==
    ASSUME NEW w, NEW f, Sound(w, NoCommand, f), w.control = <<>>,
           NEW m \in ControlMessages, m.type = "SetReport", NEW n, n = ProcessSetReport(w, m)
    PROVE  \E v, a : Answer(w, n, m, v, a)
<1>1. Typed(w)
  BY DEF Sound
<1>2. CASE m.short \/ m.report \notin {"Input", "Output"}
  <2>1. n = Invalid(w)
    BY <1>2 DEF ProcessSetReport
  <2>2. QED
    BY <1>1, <2>1, InvalidAnswer
<1>3. CASE ~ m.short /\ m.report = "Input"
  <2>1. n = SendHandshake(w, "Successful")
    BY <1>3 DEF ProcessSetReport
  <2>2. QED
    BY <1>1, <2>1, SuccessAnswer
<1>4. CASE ~ m.short /\ m.report = "Output"
  <2> DEFINE v == ProcessOutputReport(w, m)
             a == [type |-> "Handshake", code |-> "ErrInvalidParameter"]
  <2>1. n = [v EXCEPT !.control = Append(@, a)]
    BY <1>4 DEF ProcessSetReport, Invalid, SendHandshake
  <2>2. m.leds \in SUBSET Leds
    BY <1>4, MessageFacts
  <2>3. Typed(v) /\ v.control = <<>>
    BY <2>2, OutputReport DEF Sound
  <2> HIDE DEF v
  <2>4. Answer(w, n, m, v, a)
    BY <1>4, <2>1, <2>3 DEF Answer
  <2>5. QED
    BY <2>4
<1>5. QED
  BY <1>2, <1>3, <1>4

LEMMA ControlAnswered ==
    ASSUME NEW w, NEW f, Sound(w, NoCommand, f), w.control = <<>>,
           NEW m, m.code # "Unplug", NEW n, n = ProcessControl(w, m)
    PROVE  \E v, a : Answer(w, n, m, v, a)
<1>1. Typed(w) /\ w \in Worlds(w.control)
  BY DEF Sound, Typed
<1>2. CASE m.code \in {"HardReset", "SoftReset"}
  <2>1. n = SendHandshake(HIDPReset(w), "Successful")
    BY <1>2 DEF ProcessControl
  <2>2. Typed(HIDPReset(w)) /\ HIDPReset(w).control = <<>>
    BY ResetHandled DEF Sound
  <2>3. QED
    BY <2>1, <2>2, SuccessAnswer
<1>3. CASE m.code \in {"Suspend", "ExitSuspend"}
  <2> DEFINE v == [w EXCEPT !.suspended = (m.code = "Suspend")]
  <2>1. n = SendHandshake(v, "Successful")
    BY <1>3 DEF ProcessControl
  <2>2. (m.code = "Suspend") \in BOOLEAN
    OBVIOUS
  <2>3. Typed(v)
    BY <2>2, HostFields DEF Sound
  <2>4. v.control = w.control
    BY <1>1 DEF Worlds
  <2> HIDE DEF v
  <2>5. QED
    BY <2>1, <2>3, <2>4, SuccessAnswer
<1>4. CASE m.code = "NOP"
  <2>1. n = SendHandshake(w, "Successful")
    BY <1>4 DEF ProcessControl
  <2>2. QED
    BY <1>1, <2>1, SuccessAnswer
<1>5. CASE m.code \notin {"HardReset", "SoftReset", "Suspend", "ExitSuspend", "NOP"}
  <2>1. n = Invalid(w)
    BY <1>5 DEF ProcessControl
  <2>2. QED
    BY <1>1, <2>1, InvalidAnswer
<1>6. QED
  BY <1>2, <1>3, <1>4, <1>5

(* Set_Protocol and Set_Idle, and what a later question is answered.       *)
LEMMA ProtocolAnswered ==
    ASSUME NEW w, NEW f, Sound(w, NoCommand, f), w.control = <<>>,
           NEW m, m.value \in {0, 1}, NEW n, n = ProcessSetProtocol(w, m)
    PROVE  /\ \E v, a : Answer(w, n, m, v, a)
           /\ Answers(n, [type |-> "GetProtocol"])[1].data = m.value
<1> DEFINE boot == (m.value = 0)
           v == [w EXCEPT !.bootProtocol = boot]
           q == [type |-> "GetProtocol"]
           bit == IF boot THEN 0 ELSE 1
<1>1. w \in Worlds(w.control) /\ boot \in BOOLEAN
  BY DEF Sound, Typed
<1>2. n = SendHandshake(v, "Successful")
  BY DEF ProcessSetProtocol
<1>3. Typed(v)
  BY <1>1, HostFields DEF Sound
<1> HIDE DEF boot
<1>4. v.control = w.control /\ v.bootProtocol = boot
  BY <1>1 DEF Worlds
<1> HIDE DEF v
<1>5. PICK a : Answer(w, n, m, v, a)
  BY <1>2, <1>3, <1>4, SuccessAnswer
<1>6. [n EXCEPT !.control = <<>>] = v
  BY <1>5, AnswerFacts
<1>7. Answers(n, q) = SendData(v, "Other", bit).control
  BY <1>4, <1>6 DEF Answers, ProcessControlMessage, ProcessGetProtocol
<1>8. bit = m.value
  BY DEF boot
<1> HIDE DEF bit, q
<1>9. Tells(w, SendData(v, "Other", bit), q, v, bit)
  BY <1>3, <1>4, DataAnswer
<1>10. Answers(n, q)[1].data = bit
  BY <1>7, <1>9, DataTold
<1>11. QED
  BY <1>5, <1>8, <1>10 DEF q

LEMMA IdleAnswered ==
    ASSUME NEW w, NEW f, Sound(w, NoCommand, f), w.control = <<>>,
           NEW m, ~ m.short => m.value \in IdleRates, NEW n, n = ProcessSetIdle(w, m)
    PROVE  /\ \E v, a : Answer(w, n, m, v, a)
           /\ Answers(n, [type |-> "GetIdle"])[1].data = IF m.short THEN w.idleRate ELSE m.value
<1> DEFINE rate == IF m.short THEN w.idleRate ELSE m.value
           q == [type |-> "GetIdle"]
<1>1. w \in Worlds(w.control) /\ Typed(w)
  BY DEF Sound, Typed
<1>2. \E v, a : Answer(w, n, m, v, a) /\ v.idleRate = rate
  <2>1. CASE m.short
    <3> DEFINE a == [type |-> "Handshake", code |-> "ErrInvalidParameter"]
    <3>1. n = [w EXCEPT !.control = Append(@, a)]
      BY <2>1 DEF ProcessSetIdle, Invalid, SendHandshake
    <3>2. Answer(w, n, m, w, a)
      BY <1>1, <3>1 DEF Answer
    <3>3. QED
      BY <2>1, <3>2
  <2>2. CASE ~ m.short
    <3> DEFINE v == [w EXCEPT !.idleRate = m.value]
    <3>1. n = SendHandshake(v, "Successful")
      BY <2>2 DEF ProcessSetIdle
    <3>2. Typed(v)
      BY <2>2, HostFields DEF Sound
    <3>3. v.control = w.control /\ v.idleRate = m.value
      BY <1>1 DEF Worlds
    <3> HIDE DEF v
    <3>4. QED
      BY <2>2, <3>1, <3>2, <3>3, SuccessAnswer
  <2>3. QED
    BY <2>1, <2>2
<1> HIDE DEF rate
<1>3. PICK v, a : Answer(w, n, m, v, a) /\ v.idleRate = rate
  BY <1>2
<1>4. [n EXCEPT !.control = <<>>] = v
  BY <1>3, AnswerFacts
<1>5. [n EXCEPT !.control = <<>>] = v /\ Typed(v) /\ v.control = <<>>
  BY <1>3, <1>4 DEF Answer
<1>6. Answers(n, q) = SendData(v, "Other", rate).control
  BY <1>3, <1>5 DEF Answers, ProcessControlMessage, ProcessGetIdle
<1> HIDE DEF q
<1>7. Tells(w, SendData(v, "Other", rate), q, v, rate)
  BY <1>5, DataAnswer
<1>8. Answers(n, q)[1].data = rate
  BY <1>6, <1>7, DataTold
<1>9. QED
  BY <1>3, <1>8 DEF rate, q
-----------------------------------------------------------------------------
LEMMA SoundShown == IInv => ModifiersShown
<1> SUFFICES ASSUME IInv, Rest, "mods" \notin k.reset
             PROVE  /\ k.visible = {k.screen} /\ k.pushed = k.screen
                    /\ \A e \in (On(k.screen) \cap ModButtons) \ k.missed :
                           e.key \notin k.held =>
                               /\ k.value[e] = (e.key \in k.hidp.modifiers)
                               /\ e \notin k.plain => k.label[e] = (k.hidp.modstate[e.key] = "Locked")
  BY DEF ModifiersShown
<1>1. PICK f \in SUBSET Mods : Sound(k, NoCommand, f)
  BY DEF IInv
<1>2. Faces(k) /\ k.cmds = <<>>
  BY DEF Rest, Shown, Faces
<1>3. \A C : ~ Has(k.cmds, C)
  <2>1. Len(k.cmds) = 0
    BY <1>2
  <2>2. QED
    BY <2>1 DEF Has
<1>4. k.visible = {k.screen} /\ k.pushed = k.screen
  BY <1>1, <1>2, <1>3, NothingNow DEF Sound, Screened, ScreenRight, Soon
<1>5. ASSUME NEW e \in (On(k.screen) \cap ModButtons) \ k.missed, e.key \notin k.held
      PROVE  /\ k.value[e] = (e.key \in k.hidp.modifiers)
             /\ e \notin k.plain => k.label[e] = (k.hidp.modstate[e.key] = "Locked")
  <2>1. e \in ModButtons \ k.missed /\ e.key \in Mods \ k.held
    BY <1>5, ButtonFacts
  <2>2. e.key \notin f
    BY <1>1, <1>3, <2>1, NothingNow DEF Sound, Lifted, Soon
  <2>3. Right(k, e)
    BY <1>1, <1>2, <1>3, <2>1, <2>2, NothingNow DEF Sound, Modified, ModsRight, Soon
  <2>4. k.hidp.modstate[e.key] \in {"Sticky", "Locked", "Released"}
    BY <1>1, <2>1, <2>2 DEF Sound, P!Good, P!Latched, P!Consistent
  <2>5. k.value[e] = (e.key \in k.hidp.modifiers)
    BY <2>1, <2>3, <2>4 DEF Right, HIDPModifiers
  <2>6. k.state[e] = (k.hidp.modstate[e.key] = "Locked")
    BY <2>3, <2>4 DEF Right, HIDPModifierState, Locked
  <2>7. e \notin k.plain => k.label[e] = k.state[e]
    BY <1>1, <2>1 DEF Sound, Stated
  <2>8. QED
    BY <2>5, <2>6, <2>7
<1>6. QED
  BY <1>4, <1>5

LEMMA SoundLit == IInv => LedsShown
<1> SUFFICES ASSUME IInv, Rest, "leds" \notin k.reset, NEW e \in On(k.screen) \cap LedButtons
             PROVE  k.value[e] = (e.key \in k.leds)
  BY DEF LedsShown
<1>1. PICK f \in SUBSET Mods : Sound(k, NoCommand, f)
  BY DEF IInv
<1>2. Faces(k) /\ Len(k.cmds) = 0
  BY DEF Rest, Shown, Faces
<1>3. \A C : ~ Has(k.cmds, C)
  BY <1>2 DEF Has
<1>4. QED
  BY <1>1, <1>2, <1>3, NothingNow DEF Sound, Lit, LightsRight, Soon

(* A message is answered once, or is silent; and only a refused one leaves *)
(* everything alone.                                                       *)
LEMMA OneAnswer ==
    ASSUME NEW w, NEW f, Sound(w, NoCommand, f), w.control = <<>>,
           NEW m \in ControlMessages, NEW n, n = ProcessControlMessage(w, m)
    PROVE  IF Silent(m) THEN n.control = <<>> ELSE \E v, a : Answer(w, n, m, v, a)
<1>1. Typed(w)
  BY DEF Sound
<1>2. CASE m.type \in {"Handshake", "Data", "DatC"}
  BY <1>2 DEF ProcessControlMessage, Silent
<1>3. CASE m.type = "HIDControl" /\ m.code = "Unplug"
  <2>1. n = Enqueue(w, UnplugReceived)
    BY <1>3 DEF ProcessControlMessage, ProcessControl
  <2>2. \A b \in Mods : UnplugReceived \notin Presses(b)
    BY NewsFacts, KindFacts
  <2>3. n.control = w.control
    BY <1>1, <2>1, <2>2, NewsFacts, EnqueueFacts
  <2>4. QED
    BY <1>3, <2>3 DEF Silent
<1>4. CASE m.type = "HIDControl" /\ m.code # "Unplug"
  <2>1. n = ProcessControl(w, m)
    BY <1>4 DEF ProcessControlMessage
  <2>2. QED
    BY <1>4, <2>1, ControlAnswered DEF Silent
<1>5. CASE m.type = "GetReport"
  <2>1. n = ProcessGetReport(w, m)
    BY <1>5 DEF ProcessControlMessage
  <2>2. QED
    BY <1>5, <2>1, ReportAnswered DEF Silent
<1>6. CASE m.type = "SetReport"
  <2>1. n = ProcessSetReport(w, m)
    BY <1>6 DEF ProcessControlMessage
  <2>2. QED
    BY <1>6, <2>1, SetReportAnswered DEF Silent
<1>7. CASE m.type \in {"GetProtocol", "GetIdle"}
  <2>1. PICK data : n = SendData(w, "Other", data)
    BY <1>7 DEF ProcessControlMessage, ProcessGetProtocol, ProcessGetIdle
  <2>2. \E a : Answer(w, n, m, w, a)
    BY <1>1, <2>1, DataAnswer, DataTold
  <2>3. QED
    BY <1>7, <2>2 DEF Silent
<1>8. CASE m.type = "SetProtocol"
  <2>1. n = ProcessSetProtocol(w, m)
    BY <1>8 DEF ProcessControlMessage
  <2>2. QED
    BY <1>8, <2>1, MessageFacts, ProtocolAnswered DEF Silent
<1>9. CASE m.type = "SetIdle"
  <2>1. n = ProcessSetIdle(w, m)
    BY <1>9 DEF ProcessControlMessage
  <2>2. QED
    BY <1>9, <2>1, MessageFacts, IdleAnswered DEF Silent
<1>10. CASE m.type = "Reserved"
  <2> DEFINE a == [type |-> "Handshake", code |-> "ErrUnsupportedRequest"]
  <2>1. n = [w EXCEPT !.control = Append(@, a)]
    BY <1>10 DEF ProcessControlMessage, SendHandshake
  <2>2. Answer(w, n, m, w, a)
    BY <1>1, <2>1 DEF Answer
  <2>3. QED
    BY <1>10, <2>2 DEF Silent
<1>11. QED
  BY <1>2, <1>3, <1>4, <1>5, <1>6, <1>7, <1>8, <1>9, <1>10, MessageFacts

LEMMA SoundAnswers == IInv => AnswersTrue
<1> SUFFICES ASSUME IInv, NEW m \in ControlMessages, NEW n, n = ProcessControlMessage(k, m)
             PROVE  /\ Len(n.control) = IF Silent(m) THEN 0 ELSE 1
                    /\ \A i \in 1 .. Len(n.control) :
                           Refused(n.control[i]) /\ (m.type = "SetReport" => m.report # "Output")
                               => [n EXCEPT !.control = <<>>] = k
                    /\ m.type = "GetReport" /\ ~ m.short /\ m.report = "Input" /\ m.id = 1 =>
                           n.control[1].data = HID!KeyReport(k.hidp.modifiers, k.hidp.pressed)
                    /\ m.type = "SetProtocol" =>
                           Answers(n, [type |-> "GetProtocol"])[1].data = m.value
                    /\ m.type = "SetIdle" =>
                           Answers(n, [type |-> "GetIdle"])[1].data
                               = IF m.short THEN k.idleRate ELSE m.value
  BY DEF AnswersTrue, Silent
<1>1. PICK f \in SUBSET Mods : Sound(k, NoCommand, f)
  BY DEF IInv
<1>2. k.control = <<>>
  BY DEF IInv
<1>3. Len(n.control) = IF Silent(m) THEN 0 ELSE 1
  <2>1. CASE Silent(m)
    BY <1>1, <1>2, <2>1, OneAnswer
  <2>2. CASE ~ Silent(m)
    <3>1. PICK v, a : Answer(k, n, m, v, a)
      BY <1>1, <1>2, <2>2, OneAnswer
    <3>2. QED
      BY <2>2, <3>1, AnswerFacts
  <2>3. QED
    BY <2>1, <2>2
<1>4. ASSUME NEW i \in 1 .. Len(n.control), Refused(n.control[i]),
             m.type = "SetReport" => m.report # "Output"
      PROVE  [n EXCEPT !.control = <<>>] = k
  <2>1. ~ Silent(m) /\ i = 1
    BY <1>3, <1>4
  <2>2. PICK v, a : Answer(k, n, m, v, a)
    BY <1>1, <1>2, <2>1, OneAnswer
  <2>3. n.control[1] = a /\ [n EXCEPT !.control = <<>>] = v
    BY <2>2, AnswerFacts
  <2>4. v = k
    BY <1>4, <2>1, <2>2, <2>3 DEF Answer
  <2>5. QED
    BY <2>3, <2>4
<1>5. ASSUME m.type = "GetReport", ~ m.short, m.report = "Input", m.id = 1
      PROVE  n.control[1].data = HID!KeyReport(k.hidp.modifiers, k.hidp.pressed)
  <2>1. n = ProcessGetReport(k, m)
    BY <1>5 DEF ProcessControlMessage
  <2>2. QED
    BY <1>1, <1>2, <1>5, <2>1, ReportAnswered
<1>6. ASSUME m.type = "SetProtocol"
      PROVE  Answers(n, [type |-> "GetProtocol"])[1].data = m.value
  <2>1. n = ProcessSetProtocol(k, m)
    BY <1>6 DEF ProcessControlMessage
  <2>2. QED
    BY <1>1, <1>2, <1>6, <2>1, MessageFacts, ProtocolAnswered
<1>7. ASSUME m.type = "SetIdle"
      PROVE  Answers(n, [type |-> "GetIdle"])[1].data = IF m.short THEN k.idleRate ELSE m.value
  <2>1. n = ProcessSetIdle(k, m)
    BY <1>7 DEF ProcessControlMessage
  <2>2. QED
    BY <1>1, <1>2, <1>7, <2>1, MessageFacts, IdleAnswered
<1>8. QED
  BY <1>3, <1>4, <1>5, <1>6, <1>7
-----------------------------------------------------------------------------
(* What the form displays is right, or a command waits that corrects it,   *)
(* whatever the pen, the hard keys, the timer, the host and the command    *)
(* loop of KeyboardForm.c do: the inductive invariant.                     *)
THEOREM Invariant == Spec => []IInv
<1>1. KeyboardInit => IInv
  BY FreshSound
<1>2. IInv /\ [Next]_k => IInv'
  BY NextKeeps
<1>3. QED
  BY <1>1, <1>2, PTL DEF Spec

(* UpdateModifierState, SwitchScreen and the ModifiersChanged commands: at *)
(* rest the chosen screen is shown, and every modifier button on it shows  *)
(* whether its modifier is on and whether it is locked.                    *)
THEOREM ModifiersTheorem == Spec => []ModifiersShown
<1>1. IInv => ModifiersShown
  BY SoundShown
<1>2. QED
  BY <1>1, Invariant, PTL

(* UpdateLedState and the LedsChanged commands: at rest every light on the *)
(* screen is what the host has said last, whatever was tapped.             *)
THEOREM LightsTheorem == Spec => []LedsShown
<1>1. IInv => LedsShown
  BY SoundLit
<1>2. QED
  BY <1>1, Invariant, PTL

(* ProcessControlMessage: with no command waiting, every message would     *)
(* have its one answer or none, what is refused would change nothing but   *)
(* the lights, and what is asked for is the present state.                 *)
THEOREM AnswersTheorem == Spec => []AnswersTrue
<1>1. IInv => AnswersTrue
  BY SoundAnswers
<1>2. QED
  BY <1>1, Invariant, PTL
=============================================================================
