----------------------------- MODULE HIDProtocol -----------------------------
(***************************************************************************)
(* src/HIDProtocol.c, the input side: the state of the emulated keyboard   *)
(* and mouse, and the input reports that tell the host about it.  Modifier *)
(* keys latch: tapped once they stay down for the next key (ModSticky, six *)
(* seconds at most), tapped twice until they are tapped again (ModLocked). *)
(*                                                                         *)
(* A call of the C code changes hidp and queues reports as it goes; here   *)
(* it maps the record `hidp` to its new value, whose fields `keyboard` and *)
(* `mouse` collect the reports of the call in order.                       *)
(***************************************************************************)
EXTENDS Integers, Sequences, FiniteSets

CONSTANTS
    Mods,          \* the modifier keys in use
    Keys,          \* the normal keys in use
    RollOver,      \* KeyCodeErrorRollOver
    KeyBufferSize, \* KEYBUFFER_SIZE, the keys that are remembered
    MaxKeys,       \* the keys that fit in a report
    Buttons,       \* the mouse buttons in use
    Masks,         \* the `modifiers` arguments of the callers
    Moves,         \* the distances of HIDPMouseMove and HIDPWheelMove
    MaxStep,       \* the largest distance a report can carry (127)
    MaxMotion,     \* bound on the motion that is collected
    StickyTime     \* STICKY_TIMEOUT, in ticks

AllMods == {"LeftControl", "LeftShift", "LeftAlt", "LeftGUI",
            "RightControl", "RightShift", "RightAlt", "RightGUI"}
Shifts  == {"LeftShift", "RightShift"}

(* A mask replaces the current modifiers by its bits, or (ModCurrent)      *)
(* keeps them except for the changes it names.                             *)
MaskType == [current : {FALSE}, bits : SUBSET Mods]
            \cup [current : {TRUE},
                  bits : SUBSET {"ShiftOn", "ShiftOff", "RightAltOn", "RightAltOff"}]

ASSUME HIDPAssumption ==
    /\ Mods \subseteq AllMods
    /\ RollOver \notin Keys
    /\ MaxKeys \in Nat /\ KeyBufferSize \in Nat /\ 0 < MaxKeys /\ MaxKeys < KeyBufferSize
    /\ Masks \subseteq MaskType
    /\ \A m \in Masks : /\ ~ {"ShiftOn", "ShiftOff"} \subseteq m.bits
                        /\ ~ {"RightAltOn", "RightAltOff"} \subseteq m.bits
                        /\ m.current /\ "ShiftOn" \in m.bits => "LeftShift" \in Mods
                        /\ m.current /\ "RightAltOn" \in m.bits => "RightAlt" \in Mods
    /\ Moves \subseteq Int /\ MaxStep \in Nat \ {0} /\ MaxMotion \in Nat
    /\ StickyTime \in Nat \ {0}

VARIABLES
    hidp,   \* HIDPGlobals, and the reports of the call that is running
    held,   \* modifier keys the user has pressed and not released
    down,   \* normal keys the user has pressed and not released
    linked, \* whether the host is connected: reports are flushed otherwise
    busy,   \* whether the interrupt channel still has reports to deliver
    host    \* what the reports have told the host since it connected

vars == <<hidp, held, down, linked, busy, host>>

-----------------------------------------------------------------------------
(* Reports.                                                                *)
KeyReport(mods, pressed) ==
    [modifiers |-> mods,
     keys |-> IF Len(pressed) > MaxKeys THEN {RollOver}
              ELSE {pressed[i] : i \in 1 .. Len(pressed)}]

SendKeys(s) == [s EXCEPT !.keyboard = Append(@, KeyReport(s.modifiers, s.pressed))]

Normalized(v) == IF v < - MaxStep THEN - MaxStep ELSE IF v > MaxStep THEN MaxStep ELSE v

SendMouse(s) ==
    [s EXCEPT !.mouse = Append(@, [buttons |-> s.buttonState, x |-> Normalized(s.X)]),
              !.posChanged = FALSE,
              !.X = @ - Normalized(s.X)]

HIDPSendReport(s, force) ==
    IF force THEN SendKeys(SendMouse(s))
    ELSE IF s.posChanged THEN SendMouse(s) ELSE s

(* Modifiers change one at a time, each with a report of its own.          *)
Requested(mods, m) ==
    IF ~ m.current THEN m.bits
    ELSE (mods \cup (IF "ShiftOn" \in m.bits /\ mods \cap Shifts = {}
                     THEN {"LeftShift"} ELSE {})
               \cup (IF "RightAltOn" \in m.bits THEN {"RightAlt"} ELSE {}))
         \ ((IF "ShiftOff" \in m.bits THEN Shifts ELSE {})
            \cup (IF "RightAltOff" \in m.bits THEN {"RightAlt"} ELSE {}))

Toggle(s, to, b) ==
    IF (b \in s.modifiers) <=> (b \in to) THEN s
    ELSE SendKeys([s EXCEPT !.modifiers = IF b \in to THEN @ \cup {b} ELSE @ \ {b}])

ToggleLeft(s, to) ==
    Toggle(Toggle(Toggle(Toggle(s, to, "LeftControl"), to, "LeftShift"), to, "LeftAlt"),
           to, "LeftGUI")
ToggleRight(s, to) ==
    Toggle(Toggle(Toggle(Toggle(s, to, "RightControl"), to, "RightShift"), to, "RightAlt"),
           to, "RightGUI")

SetModifiers(s, m) ==
    LET to == Requested(s.modifiers, m) IN ToggleRight(ToggleLeft(s, to), to)

Bits(mods) == [current |-> FALSE, bits |-> mods]
ModCurrent == [current |-> TRUE, bits |-> {}]

ModifierPress(s, b) ==
    LET st == s.modstate[b]
        next == CASE st = "Released" -> "Pressed"
                  [] st = "Sticky"   -> "StickyPressed"
                  [] st = "Locked"   -> "LockedPressed"
                  [] OTHER           -> st
        mods == CASE st = "Released" -> s.modifiers \cup {b}
                  [] st = "Locked"   -> s.modifiers \ {b}
                  [] OTHER           -> s.modifiers
    IN  SetModifiers([s EXCEPT !.modstate[b] = next], Bits(mods))

(* mutant: the timer is not started                                        *)
ModifierReleaseUntimed(s, b) ==
    LET st == s.modstate[b]
        next == CASE st = "Pressed"       -> "Sticky"
                  [] st = "StickyPressed" -> "Locked"
                  [] st = "Locked"        -> "Locked"
                  [] OTHER                -> "Released"
        mods == CASE st \in {"Released", "Sticky"} -> s.modifiers \ {b}
                  [] st = "Locked"                 -> s.modifiers \cup {b}
                  [] OTHER                         -> s.modifiers
    IN  SetModifiers([s EXCEPT !.modstate[b] = next], Bits(mods))

ModifierRelease(s, b) ==
    LET st == s.modstate[b]
        next == CASE st = "Pressed"       -> "Sticky"
                  [] st = "StickyPressed" -> "Locked"
                  [] st = "Locked"        -> "Locked"
                  [] OTHER                -> "Released"
        mods == CASE st \in {"Released", "Sticky"} -> s.modifiers \ {b}
                  [] st = "Locked"                 -> s.modifiers \cup {b}
                  [] OTHER                         -> s.modifiers
    IN  SetModifiers([s EXCEPT !.modstate[b] = next,
                               !.modtimer = IF st = "Pressed" THEN StickyTime ELSE @],
                     Bits(mods))

Sticky(s) == {b \in Mods : s.modstate[b] = "Sticky"}

(* mutant: the bits of sticky modifiers stay on                            *)
NormalKeyKeepsBits(s) ==
    [s EXCEPT !.modstate = [b \in Mods |->
        CASE @[b] \in {"Pressed", "Sticky", "StickyPressed"} -> "Released"
          [] @[b] = "LockedPressed" -> "Locked"
          [] OTHER -> @[b]]]

(* A normal key has been typed: latched modifiers have done their work.    *)
NormalKey(s) ==
    SetModifiers(
        [s EXCEPT !.modstate = [b \in Mods |->
            CASE @[b] \in {"Pressed", "Sticky", "StickyPressed"} -> "Released"
              [] @[b] = "LockedPressed" -> "Locked"
              [] OTHER -> @[b]]],
        Bits(s.modifiers \ Sticky(s)))

StickyTimerLost(s) == [s EXCEPT !.modtimer = 0] \* mutant: nothing is released
(* mutant: the host is not told                                            *)
StickyTimerSilent(s) ==
    [s EXCEPT !.modtimer = 0, !.modifiers = @ \ Sticky(s),
              !.modstate = [b \in Mods |-> IF @[b] = "Sticky" THEN "Released" ELSE @[b]]]

StickyTimer(s) ==
    SetModifiers([s EXCEPT !.modtimer = 0,
                           !.modstate = [b \in Mods |->
                               IF @[b] = "Sticky" THEN "Released" ELSE @[b]]],
                 Bits(s.modifiers \ Sticky(s)))

KeyPressed(s, k) == \E i \in 1 .. Len(s.pressed) : s.pressed[i] = k

PressUnbounded(s, k) == SendKeys([s EXCEPT !.pressed = Append(@, k)]) \* mutant: no limit
Press(s, k) ==
    IF KeyPressed(s, k) \/ Len(s.pressed) = KeyBufferSize THEN SendKeys(s)
    ELSE SendKeys([s EXCEPT !.pressed = Append(@, k)])

Without(keys, i) == [j \in 1 .. Len(keys) - 1 |-> IF j < i THEN keys[j] ELSE keys[j + 1]]

(* mutant: a release is not reported                                       *)
ReleaseSilent(s, k) ==
    IF KeyPressed(s, k)
    THEN [s EXCEPT !.pressed = Without(@, CHOOSE i \in 1 .. Len(@) : @[i] = k)] ELSE s

Release(s, k) ==
    IF KeyPressed(s, k)
    THEN LET first == CHOOSE i \in 1 .. Len(s.pressed) :
                          s.pressed[i] = k /\ \A j \in 1 .. i - 1 : s.pressed[j] # k
         IN  SendKeys([s EXCEPT !.pressed = Without(@, first)])
    ELSE s

(* HIDPKeyboard for a normal key.  A click presses and releases the key    *)
(* with the modifiers it has set up, which are then restored.              *)
Typed(s, action, k) ==
    CASE action = "Press"       -> Press(s, k)
      [] action = "Release"     -> Release(s, k)
      [] action = "Click"       -> Release(Press(s, k), k)
      [] action = "DoubleClick" -> Release(Press(Release(Press(s, k), k), k), k)

(* mutant: latched modifiers are used up before the key goes down          *)
HIDPKeyboardEarly(s, action, k, m) ==
    LET set == SetModifiers(s, m)
        used == IF action # "Press" /\ m.current THEN NormalKey(set) ELSE set
    IN  SetModifiers(Typed(used, action, k), Bits(s.modifiers))

HIDPKeyboard(s, action, k, m) ==
    LET restored == SetModifiers(Typed(SetModifiers(s, m), action, k), Bits(s.modifiers))
    IN  IF action # "Press" /\ m.current THEN NormalKey(restored) ELSE restored

(* HIDPKeyboard for a modifier key, whose mask is ignored.                 *)
HIDPModifier(s, action, b) ==
    LET Tap(r) == ModifierRelease(ModifierPress(r, b), b)
    IN  CASE action = "Press"       -> ModifierPress(s, b)
          [] action = "Release"     -> ModifierRelease(s, b)
          [] action = "Click"       -> Tap(s)
          [] action = "DoubleClick" -> Tap(Tap(s))

ButtonDown(s, n) == SendMouse([s EXCEPT !.buttonState = @ \cup {n}])
ButtonUp(s, n)   == SendMouse([s EXCEPT !.buttonState = @ \ {n}])
ButtonTapMerged(s, n) == SendMouse(s) \* mutant: down and up in one report
ButtonTap(s, n)  == ButtonUp(ButtonDown(s, n), n)

HIDPButton(s, action, n, m) ==
    LET set == SetModifiers(s, m)
        done == CASE action = "Press"       -> ButtonDown(set, n)
                  [] action = "Release"     -> ButtonUp(set, n)
                  [] action = "Click"       -> SendMouse(ButtonTap(set, n))
                  [] action = "DoubleClick" -> SendMouse(ButtonTap(ButtonTap(set, n), n))
    IN  SetModifiers(done, Bits(s.modifiers))

(* Keys are released from the last pressed one to the first.               *)
HIDPReset(s) ==
    LET n == Len(s.pressed)
        released == [s EXCEPT !.pressed = <<>>,
                              !.keyboard = @ \o [i \in 1 .. n |->
                                  KeyReport(s.modifiers, SubSeq(s.pressed, 1, n - i))]]
        cleared == [SetModifiers(released, Bits({})) EXCEPT
                        !.modstate = [b \in Mods |-> "Released"], !.modtimer = 0,
                        !.X = 0, !.buttonState = {}]
    IN  HIDPSendReport(cleared, TRUE)

NewHIDP == [modifiers |-> {}, modstate |-> [b \in Mods |-> "Released"], modtimer |-> 0,
            pressed |-> <<>>, buttonState |-> {}, X |-> 0, posChanged |-> FALSE,
            keyboard |-> <<>>, mouse |-> <<>>]
-----------------------------------------------------------------------------
(* A call is over: its reports are with the host, or flushed.              *)
Told(s) == [keyboard |-> IF s.keyboard = <<>> THEN host.keyboard
                         ELSE s.keyboard[Len(s.keyboard)],
            buttons |-> IF s.mouse = <<>> THEN host.buttons
                        ELSE s.mouse[Len(s.mouse)].buttons]

Done(s) == /\ hidp' = [s EXCEPT !.keyboard = <<>>, !.mouse = <<>>]
           /\ host' = IF linked THEN Told(s) ELSE host
           /\ busy' = (linked /\ (busy \/ s.keyboard # <<>> \/ s.mouse # <<>>))

Nobody == [keyboard |-> KeyReport({}, <<>>), buttons |-> {}]

(* f_HIDPInit resets the fresh state; its reports reach nobody.            *)
HIDPInit == /\ hidp = NewHIDP
            /\ held = {} /\ down = {}
            /\ linked = FALSE /\ busy = FALSE /\ host = Nobody

Actions == {"Press", "Release", "Click", "DoubleClick"}

(* The user (a form, a hard key or a command) presses or releases a key;   *)
(* a modifier key and a mouse button may have several such sources.        *)
Modifier(action, b) ==
    /\ Done(HIDPModifier(hidp, action, b))
    /\ held' = IF action = "Press" THEN held \cup {b} ELSE held \ {b}
    /\ UNCHANGED <<down, linked>>

Key(action, k, m) ==
    /\ Done(HIDPKeyboard(hidp, action, k, m))
    /\ down' = IF action = "Press" THEN down \cup {k} ELSE down \ {k}
    /\ UNCHANGED <<held, linked>>

Button(action, n, m) ==
    /\ Done(HIDPButton(hidp, action, n, m))
    /\ UNCHANGED <<held, down, linked>>

(* HIDPMouseMove and HIDPWheelMove: if the channel is idle the motion goes *)
(* out at once (BTDataReady), otherwise it is collected.                   *)
Moved(s, x) == LET moved == [s EXCEPT !.X = @ + x, !.posChanged = TRUE]
               IN  IF linked /\ ~ busy THEN HIDPSendReport(moved, FALSE) ELSE moved

MouseMove(x) ==
    /\ hidp.X + x \in - MaxMotion .. MaxMotion
    /\ Done(Moved(hidp, x))
    /\ UNCHANGED <<held, down, linked>>

(* mutant: nobody asks for collected motion                                *)
SendCompleteLazy == busy /\ busy' = FALSE /\ UNCHANGED <<hidp, held, down, linked, host>>

(* The library has sent a report; when it was the last one, SendNext asks  *)
(* for motion that was collected meanwhile.                                *)
SendComplete ==
    /\ busy
    /\ \/ UNCHANGED vars
       \/ LET s == HIDPSendReport(hidp, FALSE)
          IN  /\ hidp' = [s EXCEPT !.keyboard = <<>>, !.mouse = <<>>]
              /\ host' = Told(s)
              /\ busy' = (s.mouse # <<>>)
    /\ UNCHANGED <<held, down, linked>>

(* A tick of the timer's clock; the sticky timer runs when its time is up. *)
Tick ==
    /\ hidp.modtimer > 0
    /\ IF hidp.modtimer = 1 THEN Done(StickyTimer(hidp))
       ELSE Done([hidp EXCEPT !.modtimer = @ - 1])
    /\ UNCHANGED <<held, down, linked>>

(* BTConnect and BTWait send a full report as soon as they are connected.  *)
Connected ==
    /\ ~ linked /\ linked' = TRUE
    /\ LET s == HIDPSendReport(hidp, TRUE)
       IN  hidp' = [s EXCEPT !.keyboard = <<>>, !.mouse = <<>>] /\ host' = Told(s)
    /\ busy' = TRUE
    /\ UNCHANGED <<held, down>>

(* The connection breaks: the state is kept for the next one.              *)
Dropped ==
    /\ linked /\ linked' = FALSE /\ busy' = FALSE
    /\ host' = Nobody
    /\ UNCHANGED <<hidp, held, down>>

(* BTDisconnect resets the state while the host still listens.             *)
Disconnect ==
    /\ linked /\ linked' = FALSE /\ busy' = FALSE
    /\ hidp' = [HIDPReset(hidp) EXCEPT !.keyboard = <<>>, !.mouse = <<>>]
    /\ host' = Nobody
    /\ UNCHANGED <<held, down>>

(* The host sends a hard or soft reset, perhaps on a control channel whose *)
(* interrupt channel is not up yet.                                        *)
HostReset == Done(HIDPReset(hidp)) /\ UNCHANGED <<held, down, linked>>

Next ==
    \/ \E a \in Actions : \/ \E b \in Mods : Modifier(a, b)
                          \/ \E k \in Keys, m \in Masks : Key(a, k, m)
                          \/ \E n \in Buttons, m \in Masks : Button(a, n, m)
    \/ \E x \in Moves : MouseMove(x)
    \/ SendComplete \/ Tick \/ Connected \/ Dropped \/ Disconnect \/ HostReset

Spec == HIDPInit /\ [][Next]_vars

(* The event loop of the program runs its timers; users owe nothing.       *)
FairSpec == Spec /\ WF_vars(Tick)
-----------------------------------------------------------------------------
ModStates == {"Released", "Pressed", "Sticky", "StickyPressed", "Locked", "LockedPressed"}
ReportType == [modifiers : SUBSET Mods, keys : SUBSET (Keys \cup {RollOver})]

KeyBuffer == {p \in Seq(Keys) : Len(p) <= KeyBufferSize}

TypeOK ==
    /\ hidp \in [modifiers : SUBSET Mods, modstate : [Mods -> ModStates],
                 modtimer : 0 .. StickyTime, pressed : KeyBuffer,
                 buttonState : SUBSET Buttons, X : Int, posChanged : BOOLEAN,
                 keyboard : {<<>>}, mouse : {<<>>}]
    /\ held \subseteq Mods /\ down \subseteq Keys
    /\ linked \in BOOLEAN /\ busy \in BOOLEAN
    /\ host \in [keyboard : ReportType, buttons : SUBSET Buttons]

(* What the modifier report may say, given the latch and the finger.       *)
Consistent(st, on, finger) ==
    IF finger THEN \/ st \in {"Pressed", "StickyPressed"} /\ on
                   \/ st \in {"Locked", "LockedPressed"} /\ ~ on
                   \/ st = "Released"
    ELSE \/ st \in {"Sticky", "Locked"} /\ on
         \/ st = "Released" /\ ~ on

(* A modifier nobody holds is down for the host exactly while it is sticky *)
(* or locked, and a held one is where its latch says: modstate, g_modifiers *)
(* and the user's fingers stay together through keystrokes that borrow     *)
(* other modifiers, resets in the middle of a press and the sticky timer.  *)
ModConsistent ==
    \A b \in Mods : Consistent(hidp.modstate[b], b \in hidp.modifiers, b \in held)

(* A sticky modifier always has a timer running to release it, although    *)
(* all modifiers share the one timer and nothing ever looks for others.    *)
StickyTimed == Sticky(hidp) # {} => hidp.modtimer > 0

(* A connected host has been told the current keys, modifiers and buttons: *)
(* no path of HIDProtocol.c changes them and forgets the report.           *)
HostInSync ==
    linked => /\ host.keyboard = KeyReport(hidp.modifiers, hidp.pressed)
              /\ host.buttons = hidp.buttonState

(* The host never shows a key that nobody holds, or a modifier that is     *)
(* neither held nor latched, whatever was clicked, reset or reconnected.   *)
NothingStuck ==
    linked => /\ host.keyboard.keys \subseteq down \cup {RollOver}
              /\ host.keyboard.keys = {RollOver} => Cardinality(down) > MaxKeys
              /\ \A b \in host.keyboard.modifiers \ held :
                     hidp.modstate[b] \in {"Sticky", "Locked"}

(* Motion collected while the channel was busy is sent when it falls idle. *)
MotionFlushed == linked /\ ~ busy => ~ hidp.posChanged

(* The modifiers a host must see with a key sent with mask m.              *)
AsMasked(before, seen, m) ==
    IF ~ m.current THEN seen = m.bits
    ELSE /\ seen \ (Shifts \cup {"RightAlt"}) = before \ (Shifts \cup {"RightAlt"})
         /\ CASE "ShiftOn" \in m.bits  -> seen \cap Shifts # {}
              [] "ShiftOff" \in m.bits -> seen \cap Shifts = {}
              [] OTHER                 -> seen \cap Shifts = before \cap Shifts
         /\ CASE "RightAltOn" \in m.bits  -> "RightAlt" \in seen
              [] "RightAltOff" \in m.bits -> "RightAlt" \notin seen
              [] OTHER -> ("RightAlt" \in seen) <=> ("RightAlt" \in before)

Times(action) == IF action = "Click" THEN 1 ELSE 2

(* The host sees n separate strokes at the places of a report sequence.    *)
Strokes(places, n) == Cardinality(places) = n /\ \A i \in places : i + 1 \notin places

(* Whatever state the program is in, a click (a double click) of a free    *)
(* key shows the host one (two) strokes of it, each with exactly the       *)
(* modifiers its mask asks for; afterwards the modifiers are as before,    *)
(* without the sticky ones when the mask used the current modifiers.       *)
KeystrokeShown ==
    \A a \in {"Click", "DoubleClick"}, k \in Keys, m \in Masks :
        ~ KeyPressed(hidp, k) /\ Len(hidp.pressed) < MaxKeys =>
            LET s == HIDPKeyboard(hidp, a, k, m)
                places == {i \in 1 .. Len(s.keyboard) : k \in s.keyboard[i].keys}
            IN  /\ Strokes(places, Times(a))
                /\ \A i \in places :
                       AsMasked(hidp.modifiers, s.keyboard[i].modifiers, m)
                /\ s.modifiers = hidp.modifiers \ (IF m.current THEN Sticky(hidp) ELSE {})
                /\ m.current => Sticky(s) = {}

(* The same for a mouse button that is up.                                 *)
ButtonShown ==
    \A a \in {"Click", "DoubleClick"}, n \in Buttons \ hidp.buttonState, m \in Masks :
        LET s == HIDPButton(hidp, a, n, m)
            places == {i \in 1 .. Len(s.mouse) : n \in s.mouse[i].buttons}
        IN  Strokes(places, Times(a)) /\ s.modifiers = hidp.modifiers

(* A sticky modifier is released in the end, unless modifiers are released *)
(* for ever so often that the timer they share always starts again.        *)
StickyEnds == []<>(Sticky(hidp) = {}) \/ []<>(hidp.modtimer = StickyTime)
=============================================================================
