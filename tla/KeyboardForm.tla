---------------------------- MODULE KeyboardForm ----------------------------
(***************************************************************************)
(* src/KeyboardForm.c: the buttons of the keyboard form that show the      *)
(* state of the modifiers and the lights of the keyboard, on its four      *)
(* screens; and what changes that state behind them: the buttons and hard  *)
(* keys themselves, the sticky timer, and the host (HIDControl.tla).  They *)
(* meet in the command queue, which the event loop empties.                *)
(*                                                                         *)
(* The mouse form stands for every other form.  A tap on a button changes  *)
(* what the button shows at once, whatever its command will do.            *)
(***************************************************************************)
EXTENDS HIDControl

CONSTANTS
    HardMods,    \* the modifiers that hard keys press and release
    Messages,    \* what the host says on the control channel
    MaxCommands  \* bound on the commands that wait when a new cause arises

ASSUME KeyboardFormAssumption == HardMods \subseteq Mods /\ Messages \subseteq ControlMessages

VARIABLE k

Screens == {"Alpha", "Numeric", "Cursor", "Function"}

(* The buttons of the modifiers and lights, with the screen they are on.   *)
ModButtons ==
    {e \in [key : Mods, screen : {"All"}] :
        e.key \in {"LeftControl", "LeftShift", "LeftAlt", "LeftGUI"}}
    \cup {e \in [key : Mods, screen : {"Alpha"}] : e.key \in {"LeftAlt", "RightAlt"}}
LedButtons ==
    {e \in [key : Leds, screen : {"Numeric", "Function"}] :
        e.screen = "Numeric" => e.key = "NumLock"}
Displays == ModButtons \cup LedButtons

On(screen) == {e \in Displays : e.screen \in {"All", screen}}
Locked(s) == s \in {"Locked", "LockedPressed"}
-----------------------------------------------------------------------------
(* A label is changed when the lock has changed since it was set last,     *)
(* also in an earlier life of the form: opening the form forces it.        *)
UpdateModifierState(n, force) ==
    LET updated == On(n.screen) \cap ModButtons
        locked(e) == Locked(HIDPModifierState(n, e.key))
    IN  [n EXCEPT
           !.label = [e \in ModButtons |-> IF e \in updated /\ (force \/ n.state[e] # locked(e))
                                           THEN locked(e) ELSE @[e]],
           !.state = [e \in ModButtons |-> IF e \in updated THEN locked(e) ELSE @[e]],
           !.value = [e \in Displays |-> IF e \in updated THEN e.key \in HIDPModifiers(n) ELSE @[e]],
           !.missed = ModButtons \ updated, !.reset = @ \ {"mods"}]

UpdateLedState(n) ==
    LET updated == On(n.screen) \cap LedButtons
    IN  [n EXCEPT !.value = [e \in Displays |-> IF e \in updated THEN e.key \in HIDPLeds(n) ELSE @[e]],
                  !.reset = @ \ {"leds"}]

ShowScreen(n, screen) == IF n.form = "Keyboard" THEN [n EXCEPT !.visible = @ \cup {screen}] ELSE n
HideScreen(n, screen) == IF n.form = "Keyboard" THEN [n EXCEPT !.visible = @ \ {screen}] ELSE n

(* The lights of the new screen are brought up to date, its modifiers are  *)
(* not.  While another form is shown only the choice is remembered.        *)
SwitchScreen(n, to) ==
    IF n.form # "Keyboard" THEN [n EXCEPT !.screen = to]
    ELSE UpdateLedState(ShowScreen([HideScreen([n EXCEPT !.pushed = to], n.screen)
                                    EXCEPT !.screen = to], to))

KbdSwitchScreens(n) ==
    SwitchScreen(n, CASE n.screen = "Alpha"   -> "Numeric"
                      [] n.screen = "Numeric" -> "Cursor"
                      [] n.screen = "Cursor"  -> "Function"
                      [] OTHER                -> "Alpha")

SwitchToForm(n, form) == [n EXCEPT !.goal = form]

(* frmLoadEvent: a new form, whose buttons show nothing, and whose screens *)
(* are hidden; g_modifiers[].state is static and outlives the old one.     *)
InitForm(n) ==
    [n EXCEPT !.form = n.goal, !.goal = "none", !.open = FALSE, !.visible = {}, !.pushed = "Alpha",
              !.plain = ModButtons, !.value = [e \in Displays |-> FALSE], !.label = [e \in ModButtons |-> FALSE]]

(* frmOpenEvent and frmUpdateEvent.                                        *)
OpenForm(n) ==
    IF n.form = "Mouse" THEN [n EXCEPT !.open = TRUE]
    ELSE [SwitchScreen(UpdateLedState(UpdateModifierState(n, TRUE)), n.screen)
          EXCEPT !.open = TRUE, !.plain = @ \ On(n.screen)]
-----------------------------------------------------------------------------
(* The event loop: a command goes to the form, then to Main.c, then to     *)
(* CmdExecute.                                                             *)
KeyboardFormHandles(c) == c.cmd \in {"ModifiersChanged", "LedsChanged", "SwitchScreens"}
KeyboardFormHandleEvent(n, c) ==
    CASE c.cmd = "ModifiersChanged" -> UpdateModifierState(n, FALSE)
      [] c.cmd = "LedsChanged"      -> UpdateLedState(n)
      [] c.cmd = "SwitchScreens"    -> KbdSwitchScreens(n)

CmdExecute(n, c) ==
    CASE c.cmd = "Select"   -> SwitchScreen(n, c.screen)
      [] c.cmd = "Keyboard" -> Keyboard(n, c.action, c.key, HID!ModCurrent)
      [] c.cmd = "HardKey"  -> IF c.key \in Mods THEN Keyboard(n, c.action, c.key, HID!ModCurrent)
                               ELSE IF c.key = "Hard1" THEN Enqueue(n, [cmd |-> "SwitchForms"])
                               ELSE Enqueue(n, [cmd |-> "SwitchScreens"])
      [] OTHER -> n

Handle(n, c) ==
    IF n.form = "Keyboard" /\ KeyboardFormHandles(c) THEN KeyboardFormHandleEvent(n, c)
    ELSE IF n.form = "Mouse" /\ c.cmd = "SwitchScreens" THEN SwitchToForm(n, "Keyboard")
    ELSE IF c.cmd = "SwitchForms"
         THEN SwitchToForm(n, IF n.form = "Mouse" THEN "Keyboard" ELSE "Mouse")
    ELSE CmdExecute(n, c)

(* What a call queued for the control channel is delivered.                *)
Becomes(n) == k' = [n EXCEPT !.control = <<>>]

Execute == k.cmds # <<>> /\ Becomes(Handle([k EXCEPT !.cmds = Tail(@)], Head(k.cmds)))

(* Other events wait until there are no commands.                          *)
Load == k.cmds = <<>> /\ k.goal # "none" /\ Becomes(InitForm(k))
Open == k.cmds = <<>> /\ k.goal = "none" /\ ~ k.open /\ Becomes(OpenForm(k))
-----------------------------------------------------------------------------
Free  == Len(k.cmds) < MaxCommands
Shown == k.form = "Keyboard" /\ k.open /\ k.goal = "none"

(* A push button toggles under the pen, and its command clicks its key.    *)
TapDisplay(e) ==
    /\ Shown /\ Free /\ (e.screen = "All" \/ e.screen \in k.visible)
    /\ Becomes(Enqueue([k EXCEPT !.value[e] = ~ @],
                       [cmd |-> "Keyboard", action |-> "Click", key |-> e.key]))

TapKey(key) ==
    /\ Shown /\ Free
    /\ Becomes(Enqueue(k, [cmd |-> "Keyboard", action |-> "Click", key |-> key]))

TapScreen(screen) ==
    /\ Shown /\ Free
    /\ Becomes(Enqueue([k EXCEPT !.pushed = screen], [cmd |-> "Select", screen |-> screen]))

HardModifier(b) ==
    /\ Free
    /\ LET action == IF b \in k.held THEN "Release" ELSE "Press"
       IN  Becomes(Enqueue([k EXCEPT !.held = IF b \in @ THEN @ \ {b} ELSE @ \cup {b}],
                           [cmd |-> "HardKey", action |-> action, key |-> b]))

HardSwitch(key) ==
    /\ Free /\ k.open
    /\ Becomes(Enqueue(k, [cmd |-> "HardKey", action |-> "Press", key |-> key]))

(* A dialog over the form is gone, and the system has the form redrawn.    *)
Redraw == k.cmds = <<>> /\ Shown /\ Becomes(OpenForm(k))

(* Messages are processed in the library's callbacks.                      *)
HostControls(m) == Free /\ Becomes(ProcessControlMessage(k, m))
HostInterrupts(m) == Free /\ Becomes(ProcessInterruptMessage(k, m))

Tick ==
    /\ Free /\ k.hidp.modtimer > 0
    /\ IF k.hidp.modtimer = 1 THEN Becomes(StickyTimer(k))
       ELSE Becomes([k EXCEPT !.hidp.modtimer = @ - 1])

Fresh ==
    [hidp |-> HID!NewHIDP, leds |-> {}, suspended |-> FALSE, bootProtocol |-> FALSE, idleRate |-> 0,
     control |-> <<>>, cmds |-> <<>>, reset |-> {}, missed |-> {}, plain |-> {}, held |-> {},
     form |-> "Mouse", goal |-> "none", open |-> TRUE,
     screen |-> "Alpha", visible |-> {}, pushed |-> "Alpha",
     value |-> [e \in Displays |-> FALSE], label |-> [e \in ModButtons |-> FALSE],
     state |-> [e \in ModButtons |-> FALSE]]

KeyboardInit == k = Fresh

Next ==
    \/ Execute \/ Load \/ Open \/ Redraw \/ Tick
    \/ \E e \in Displays : TapDisplay(e)
    \/ \E key \in Keys \ Leds : TapKey(key)
    \/ \E screen \in Screens : TapScreen(screen)
    \/ \E b \in HardMods : HardModifier(b)
    \/ \E key \in {"Hard1", "Hard2"} : HardSwitch(key)
    \/ \E m \in Messages : HostControls(m)
    \/ \E m \in InterruptMessages : HostInterrupts(m)

Spec == KeyboardInit /\ [][Next]_k
-----------------------------------------------------------------------------
(* Nothing waits to be done, and the keyboard form is on the screen.       *)
Rest == k.cmds = <<>> /\ Shown

(* At rest the screen that is chosen is the one that is shown, and each    *)
(* modifier button on it shows whether its modifier is on, and whether it  *)
(* is locked: after taps, hard keys, keystrokes that use the modifier up,  *)
(* time-outs, and other forms that the display was not told on.  Left out  *)
(* are a key under the finger, a reset by the host, which no form handles, *)
(* and a button that was off the screen when its modifier changed.         *)
ModifiersShown ==
    Rest /\ "mods" \notin k.reset =>
        /\ k.visible = {k.screen} /\ k.pushed = k.screen
        /\ \A e \in (On(k.screen) \cap ModButtons) \ k.missed :
               e.key \notin k.held =>
                   /\ k.value[e] = (e.key \in k.hidp.modifiers)
                   /\ e \notin k.plain => k.label[e] = (k.hidp.modstate[e.key] = "Locked")

(* At rest each light on the screen is what the host has said last, though *)
(* taps toggle the button at once and the host may never answer them, and  *)
(* though the host speaks while other screens and forms are shown.         *)
LedsShown ==
    Rest /\ "leds" \notin k.reset =>
        \A e \in On(k.screen) \cap LedButtons : k.value[e] = (e.key \in k.leds)

Answers(n, m) == ProcessControlMessage([n EXCEPT !.control = <<>>], m).control
Refused(a) == a.type = "Handshake" /\ a.code # "Successful"

(* In every state that has no command waiting, whichever form is shown or  *)
(* on its way, a message on the control channel would have exactly one     *)
(* answer, or none where none is due; a message that is refused would      *)
(* change nothing (but for the lights, which are set although the answer   *)
(* is an error); the keyboard report that is asked for is the present one, *)
(* and what was set is what is read back.                                  *)
AnswersTrue ==
    k.cmds = <<>> => \A m \in ControlMessages :
        LET n == ProcessControlMessage(k, m)
        IN  /\ Len(n.control) = IF \/ m.type \in {"Handshake", "Data", "DatC"}
                                   \/ m.type = "HIDControl" /\ m.code = "Unplug" THEN 0 ELSE 1
            /\ \A i \in 1 .. Len(n.control) :
                   Refused(n.control[i]) /\ (m.type = "SetReport" => m.report # "Output")
                       => [n EXCEPT !.control = <<>>] = k
            /\ m.type = "GetReport" /\ ~ m.short /\ m.report = "Input" /\ m.id = 1 =>
                   n.control[1].data = HID!KeyReport(k.hidp.modifiers, k.hidp.pressed)
            /\ m.type = "SetProtocol" => Answers(n, [type |-> "GetProtocol"])[1].data = m.value
            /\ m.type = "SetIdle" => Answers(n, [type |-> "GetIdle"])[1].data
                                     = IF m.short THEN k.idleRate ELSE m.value
=============================================================================
