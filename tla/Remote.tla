------------------------------- MODULE Remote -------------------------------
(***************************************************************************)
(* The handheld as a remote control (src/Main.c, src/Commands.c, with      *)
(* MouseForm.tla and HardKeys.tla): the event loop takes a command, or     *)
(* else an event of the system, and hands it to the form that is shown.    *)
(* The forms are the mouse form and the keyboard form; loading another one *)
(* takes two events of the system, which a dialog with an event loop of    *)
(* its own may swallow.                                                    *)
(*                                                                         *)
(* The user holds the keys and the pen r.fingers.  Three ghosts: r.asked   *)
(* is the form that was asked for last; r.lost, that a dialog swallowed an *)
(* open event nobody waits for any more; r.stuck is what may stay down at  *)
(* the host because the program was not told, or told another form or by   *)
(* another character, that a finger was lifted.                            *)
(***************************************************************************)
EXTENDS HardKeys, MouseForm

CONSTANTS
    Hands,      \* the devices, each with the setting of hardkeyOverride
    Keyboards,  \* the keys of a device, by device
    Choices,    \* the mouse buttons that are chosen
    MaxFingers, \* bound on the keys that are held at once
    MaxEvents   \* bound on the events that wait when a form is asked for

(* The keys that are modelled; a device other than the Treo and the        *)
(* Tungsten has no key of its own on the side.                             *)
ASSUME RemoteAssumption ==
    \A hand \in Hands :
        /\ hand.device \in Devices /\ hand.override \in BOOLEAN
        /\ Keyboards[hand.device] \subseteq {"Up", "Center", "Side", "a", "Hard1", "Hard2"}
        /\ hand.device = "Other" => "Side" \notin Keyboards[hand.device]

VARIABLE r

Other(form) == IF form = "Mouse" THEN "Keyboard" ELSE "Mouse"
-----------------------------------------------------------------------------
(* Switching forms.                                                        *)
FrmGotoForm(n, form) ==
    [n EXCEPT !.events = @ \o <<[type |-> "load", form |-> form], [type |-> "open", form |-> form]>>]

SwitchToForm(n, form) ==
    FrmGotoForm([n EXCEPT !.goal = form, !.late = FALSE, !.switched = FALSE, !.asked = form], form)

(* g_switched and g_switchingSince are read only while there is a goal.    *)
NoGoal(n) == [n EXCEPT !.goal = "none", !.late = FALSE, !.switched = FALSE]

(* mutant: any form will do                                                *)
FormDrawnAny(n, form) == NoGoal(n)

(* A form is open.  If it is not the one that was asked for, ask again.    *)
FormDrawn(n, form) ==
    IF n.goal \notin {"none", form} THEN FrmGotoForm(n, n.goal)
    ELSE NoGoal(n)

(* Before the loop waits for an event, it asks for the form a second time. *)
AskAgain(n) ==
    IF n.goal = "none" \/ n.switched THEN n
    ELSE IF n.form = n.goal THEN NoGoal(n)
    ELSE FrmGotoForm([n EXCEPT !.switched = TRUE], n.goal)

(* With an event in hand, it asks again if two seconds have gone by.       *)
AskLate(n) ==
    IF n.goal # "none" /\ n.late THEN FrmGotoForm([n EXCEPT !.late = FALSE], n.goal) ELSE n

(* What a finger holds down at the host, or on the pad, by the form.       *)
Meaning(finger, form) ==
    CASE finger = "Up"     -> IF form = "Mouse" THEN "pointer" ELSE "UpArrow"
      [] finger = "Center" -> IF form = "Mouse" THEN "button" ELSE "Return"
      [] finger = "Side"   -> "button"
      [] finger = "a"      -> "A"
      [] finger = "pen"    -> IF form = "Mouse" THEN "stroke" ELSE "nothing"
      [] OTHER             -> "nothing"

(* frmLoadEvent: the form is now g_currentForm, with its handler.          *)
Crossed(n, form) == {f \in n.fingers : Meaning(f, n.form) # Meaning(f, form)}
AppInitForm(n, form) ==
    [n EXCEPT !.form = form, !.drawn = FALSE,
              !.stuck = @ \cup {Meaning(f, n.form) : f \in Crossed(n, form)}]

(* frmOpenEvent: a new mouse form has its Drag checkbox off.               *)
OpenForm(n, form) ==
    FormDrawn([IF form = "Mouse" THEN DragMode(n, FALSE) ELSE n
               EXCEPT !.drawn = TRUE, !.enabled = TRUE, !.lost = FALSE], form)
-----------------------------------------------------------------------------
(* Commands.                                                               *)
Enqueue(n, c) == [n EXCEPT !.cmds = Append(@, c)]

KeyCodes == [A |-> "A", Space |-> "Space", Enter |-> "Return", Backspace |-> "Backspace",
             Up |-> "UpArrow", Down |-> "DownArrow", Left |-> "LeftArrow", Right |-> "RightArrow",
             Center |-> "Return"]

ExecuteHardKey(n, key, action) ==
    IF key \in DOMAIN KeyCodes THEN HIDPKeyboard(n, action, KeyCodes[key])
    ELSE IF key \in {"Hard1", "Hard2"} /\ action \in {"Press", "Click"}
         THEN Enqueue(n, [cmd |-> IF key = "Hard1" THEN "SwitchForms" ELSE "SwitchScreens"])
    ELSE IF key = "Hard3" THEN HIDPButton(n, action, 3)
    ELSE IF key = "SideSelect" THEN HIDPButton(n, action, 1)
    ELSE n

(* A command goes to the form, to the event loop, to CmdExecute.           *)
Handle(n, c) ==
    CASE c.cmd = "HardKey" -> IF n.form = "Mouse" /\ MouseFormHandles(c)
                              THEN MouseFormHardKey(n, c.key, c.action)
                              ELSE ExecuteHardKey(n, c.key, c.action)
      [] c.cmd = "Keyboard" -> HIDPKeyboard(n, c.action, c.key)
      [] c.cmd = "SwitchScreens" -> IF n.form = "Mouse" THEN SwitchToForm(n, "Keyboard") ELSE n
      [] c.cmd = "SwitchForms" -> SwitchToForm(n, Other(n.form))

(* What is down at the host, and on the pad.                               *)
DownNow(n) ==
    {n.hidp.pressed[i] : i \in 1 .. Len(n.hidp.pressed)}
    \cup (IF 1 \in n.hidp.buttonState THEN {"button"} ELSE {})
    \cup (IF n.timer THEN {"pointer"} ELSE {}) \cup (IF n.trackPen THEN {"stroke"} ELSE {})

Becomes(n) == r' = [n EXCEPT !.stuck = @ \cap DownNow(n)]

Execute ==
    /\ r.cmds # <<>>
    /\ Becomes(Handle(AskLate([r EXCEPT !.cmds = Tail(@)]), Head(r.cmds)))
-----------------------------------------------------------------------------
(* Events of the system: the loop's next event when no command waits.      *)
Turn == AskLate(AskAgain(r))
NextEvent == IF r.events = <<>> THEN "none" ELSE Head(r.events).type
Quiet == r.cmds = <<>> /\ NextEvent = "none"
Room  == Len(r.events) < MaxEvents

(* What came before a form was asked for comes before its load.            *)
Strikes == r.cmds = <<>> /\ NextEvent # "open" /\ Room

Load ==
    /\ r.cmds = <<>> /\ NextEvent = "load"
    /\ Becomes(AppInitForm([Turn EXCEPT !.events = Tail(@)], Head(r.events).form))

Open ==
    /\ r.cmds = <<>> /\ NextEvent = "open"
    /\ Becomes(OpenForm([Turn EXCEPT !.events = Tail(@)], Head(r.events).form))

(* frmUpdateEvent: the system wants the form drawn anew, and the forms'    *)
(* handlers take it as they take frmOpenEvent.                             *)
Update ==
    /\ Strikes /\ r.drawn /\ r.over = "none"
    /\ Becomes(OpenForm(Turn, r.form))

Idle == Quiet /\ r.goal # "none" /\ Becomes(Turn)

TwoSeconds == r.goal # "none" /\ ~ r.late /\ Room /\ Becomes([r EXCEPT !.late = TRUE])

(* The events of a key; a release on the side of a Treo is a KeyDown.      *)
Event(finger, type, option) ==
    LET e == [type |-> type, option |-> option, up |-> TRUE, repeat |-> FALSE, on |-> FALSE,
              virtual |-> FALSE, key |-> finger, chr |-> finger]
    IN  CASE finger = "Up"     -> [e EXCEPT !.chr = "RockerUp"]
          [] finger = "Center" -> [e EXCEPT !.chr = "HardRockerCenter"]
          [] finger = "a"      -> [e EXCEPT !.chr = IF option THEN "&" ELSE "a", !.key = "A"]
          [] finger = "Side" /\ r.device = "Treo" ->
                 IF type # "KeyUp" THEN [e EXCEPT !.key = "SideKey"]
                 ELSE [e EXCEPT !.key = "SideKey", !.type = "KeyDown", !.on = TRUE, !.repeat = TRUE]
          [] finger = "Side" /\ r.device # "Treo" -> [e EXCEPT !.chr = "Hard5"]
          [] OTHER             -> e

Process1(n, e) == [n EXCEPT !.cmds = @ \o Process(n.device, n.enabled, n.override, e)]

Navigator == IF r.device = "Treo" THEN {} ELSE {"Up", "Center"}

Press(finger, option) ==
    /\ Strikes /\ finger \notin r.fingers /\ Cardinality(r.fingers) < MaxFingers
    /\ Becomes([Process1(Turn, Event(finger, "KeyDown", option)) EXCEPT !.fingers = @ \cup {finger}])

(* The release is seen, unless hard keys are off or Option has changed it. *)
Unseen(n, lifted, option) == {f \in lifted : ~ n.enabled \/ (f = "a" /\ option)}
Lifted(n, lifted, unseen) ==
    [n EXCEPT !.fingers = @ \ lifted,
              !.stuck = (@ \ {Meaning(f, n.form) : f \in lifted \ unseen})
                        \cup {Meaning(f, n.form) : f \in unseen}]

Release(finger, option) ==
    /\ Strikes /\ finger \in r.fingers
    /\ Becomes(Lifted(Process1(Turn, Event(finger, "KeyUp", option)),
                      {finger}, Unseen(r, {finger}, option)))

(* A key that is held repeats.                                             *)
Repeat(finger, type) ==
    /\ Strikes /\ finger \in r.fingers
    /\ Becomes(Process1(Turn, [Event(finger, type, FALSE) EXCEPT !.repeat = type = "KeyDown"]))

(* A navigator tells which directions have changed, several at a time.     *)
Navigate(changed) ==
    /\ Strikes
    /\ LET down == (r.fingers \cup changed) \ (r.fingers \cap changed)
           e == [Event("Nav", "KeyDown", FALSE) EXCEPT !.chr = "NavChange"]
           lifted == r.fingers \cap changed
       IN  /\ Cardinality(down) <= MaxFingers
           /\ Becomes([Lifted(Process1(Turn, [x \in DOMAIN e \cup {"changed", "down"} |->
                                                CASE x = "changed" -> changed [] x = "down" -> down
                                                  [] OTHER -> e[x]]),
                              lifted, Unseen(r, lifted, FALSE)) EXCEPT !.fingers = down])

(* Graffiti: a character without a key.                                    *)
Write(chr) ==
    /\ Strikes
    /\ Becomes(Process1(Turn, [Event("none", "KeyDown", FALSE) EXCEPT !.chr = chr]))

HardKeyTimeout == r.timer /\ Becomes(HardKeyTimer(r))
-----------------------------------------------------------------------------
(* The pen.                                                                *)
OnMouseForm == Quiet /\ r.form = "Mouse" /\ r.drawn /\ r.over = "none" /\ "pen" \notin r.fingers

PenDown ==
    /\ OnMouseForm /\ Cardinality(r.fingers) < MaxFingers
    /\ Becomes(MousePadHandler([Turn EXCEPT !.fingers = @ \cup {"pen"}]))

PenDrag == Strikes /\ "pen" \in r.fingers /\ r.form = "Mouse" /\ Becomes(PenMove(Turn))

LiftPen(tap) ==
    /\ Strikes /\ "pen" \in r.fingers
    /\ Becomes(IF r.form = "Mouse" THEN Lifted(PenUp(Turn, tap), {"pen"}, {})
               ELSE Lifted(Turn, {"pen"}, {}))

TapButton(id) == OnMouseForm /\ Becomes(SelectButton(Turn, id))
TapDrag == OnMouseForm /\ Becomes(SelectDrag(Turn))

(* A menu or a popup list is a window over the form: winExitEvent, then    *)
(* winEnterEvent; a choice in it may be a form.  Menus are opened only     *)
(* when no form is on its way: what a menu over a form that is about to be *)
(* replaced does to the windows is up to the system.                       *)
OpenMenu ==
    /\ Quiet /\ r.drawn /\ r.goal = "none" /\ r.over = "none"
    /\ Becomes([r EXCEPT !.over = "menu", !.enabled = FALSE])
LeaveMenu(n) == [n EXCEPT !.over = "none", !.enabled = TRUE]
CloseMenu == Quiet /\ r.over = "menu" /\ Becomes(LeaveMenu(r))
ChooseForm(form) == Quiet /\ r.over = "menu" /\ Becomes(SwitchToForm(LeaveMenu(r), form))

(* A dialog of a callback, which comes while the loop waits for an event,  *)
(* or About: its own loop swallows the events.                             *)
Dialog(lifted) ==
    /\ r.cmds = <<>>
    /\ Becomes([Lifted(r, lifted, lifted) EXCEPT
                  !.lost = @ \/ (r.goal = "none" /\ ~ r.drawn), !.events = <<>>])

Fresh(hand) ==
    [device |-> hand.device, override |-> hand.override,
     form |-> "Mouse", asked |-> "Mouse", drawn |-> TRUE, goal |-> "none", switched |-> FALSE,
     late |-> FALSE, lost |-> FALSE, events |-> <<>>, over |-> "none", enabled |-> TRUE,
     cmds |-> <<>>, fingers |-> {}, stuck |-> {}, hidp |-> HID!NewHIDP,
     hardkey |-> "none", timer |-> FALSE, selected |-> "Left", dragmode |-> FALSE,
     drag |-> FALSE, trackPen |-> FALSE, moved |-> FALSE]

Init == \E hand \in Hands : r = Fresh(hand)

Next ==
    \/ Execute \/ Load \/ Open \/ Update \/ Idle \/ TwoSeconds \/ HardKeyTimeout
    \/ \E f \in Keyboards[r.device] \ Navigator, option \in BOOLEAN :
           Press(f, option) \/ Release(f, option)
    \/ \E f \in Keyboards[r.device] \ Navigator, type \in {"KeyDown", "KeyHold"} : Repeat(f, type)
    \/ \E changed \in (SUBSET Navigator) \ {{}} : Navigate(changed)
    \/ \E chr \in {"a", "A"} : Write(chr)
    \/ PenDown \/ PenDrag \/ \E tap \in BOOLEAN : LiftPen(tap)
    \/ \E id \in Choices : TapButton(id)
    \/ TapDrag \/ OpenMenu \/ CloseMenu
    \/ \E form \in {"Mouse", "Keyboard"} : ChooseForm(form)
    \/ \E lifted \in SUBSET r.fingers : Dialog(lifted)

Spec == Init /\ [][Next]_r
-----------------------------------------------------------------------------
(* What is held down, and what the ghost keeps for a key that is held no   *)
(* longer.                                                                 *)
HeldNow   == {Meaning(f, r.form) : f \in r.fingers}
HeldOrStuck == HeldNow \cup r.stuck

(* With no command waiting, every key that is down at the host is the      *)
(* meaning of a key that is held, and every button that of a key that is   *)
(* held or of a drag: through several changes in one event, buttons chosen *)
(* during a drag, and releases that come behind a form switch.  Excepted   *)
(* is what stayed down because its release was not seen as one (under a    *)
(* menu or a dialog, with Option, or on another form than the press), from *)
(* then until a key of that meaning is next released in sight.             *)
KeysExplained ==
    r.cmds = <<>> =>
        /\ \A i \in 1 .. Len(r.hidp.pressed) : r.hidp.pressed[i] \in HeldOrStuck
        /\ \A n \in r.hidp.buttonState : \/ n = 1 /\ "button" \in HeldOrStuck
                                         \/ r.drag /\ n = Buttons[r.selected]

(* With no command waiting, on the mouse form, the timer moves the pointer *)
(* only while an arrow is held, or after an arrow was lifted or crossed to *)
(* another form where the mouse form could not see it: under a menu, under *)
(* a dialog, on or on the way to the other form.  Then the pointer does go *)
(* on by itself, but no longer than until the form next sees an arrow      *)
(* released, or the timer ends on the other form.  The same for the pad,   *)
(* which follows the pen.                                                  *)
PointerRests ==
    r.cmds = <<>> /\ r.form = "Mouse" =>
        /\ r.timer => r.hardkey # "none" /\ ("pointer" \in HeldNow \/ "pointer" \in r.stuck)
        /\ r.trackPen => "stroke" \in HeldNow \/ "stroke" \in r.stuck

(* When nothing is on its way, the form that was asked for last is shown,  *)
(* and it listens to the hard keys unless a menu is over it; although each *)
(* form is asked for twice or more, other forms are asked for meanwhile,   *)
(* and dialogs swallow the events ("formOpenEvents are lost", src/Main.c). *)
(* Excepted is a form that a dialog has kept closed: the dialog came when  *)
(* the form was loaded, not open yet, and nobody waited for it any more,   *)
(* since the one that was asked for had been met (r.lost).                 *)
FormReached ==
    Quiet /\ r.goal = "none" /\ ~ r.lost =>
        r.form = r.asked /\ r.drawn /\ (r.enabled <=> r.over = "none")
=============================================================================
