------------------------------ MODULE MouseForm ------------------------------
(***************************************************************************)
(* src/MouseForm.c: the pad, the buttons and the Drag checkbox of the      *)
(* mouse form, and the hard keys that move the pointer while it is shown.  *)
(*                                                                         *)
(* A function maps a record r to its new value.  r.hidp is the input side  *)
(* of HIDProtocol.tla; selected, dragmode, drag, trackPen, moved and       *)
(* hardkey are the static variables of the file, and timer says whether    *)
(* hardkeyTimer is scheduled.  How far the pointer moves is left out.      *)
(***************************************************************************)
EXTENDS Integers, Sequences, FiniteSets

CONSTANTS
    HostKeys,  \* the keys of the host that hard keys press
    MaxPressed \* bound on the keys that are down at once

Buttons == [Left |-> 1, Right |-> 2, Middle |-> 3]

HID == INSTANCE HIDProtocol
       WITH Mods <- {}, Keys <- HostKeys, RollOver <- "RollOver", KeyBufferSize <- MaxPressed,
            MaxKeys <- MaxPressed - 1, StickyTime <- 1,
            Buttons <- 1 .. 3, Masks <- {}, Moves <- {}, MaxStep <- 127, MaxMotion <- 0,
            hidp <- {}, held <- {}, down <- {}, linked <- TRUE, busy <- FALSE, host <- {}

Input(r, s) == [r EXCEPT !.hidp = [s EXCEPT !.keyboard = <<>>, !.mouse = <<>>]]
HIDPButton(r, action, n) == Input(r, HID!HIDPButton(r.hidp, action, n, HID!ModCurrent))
HIDPKeyboard(r, action, key) == Input(r, HID!HIDPKeyboard(r.hidp, action, key, HID!ModCurrent))
-----------------------------------------------------------------------------
(* Drag mode: a tap presses the selected button, and the next releases it. *)
MouseButtonIDToNumber(r) == Buttons[r.selected]
UpdateButtonAfterClick(r) == [r EXCEPT !.selected = "Left"]

DragStop(r) ==
    IF ~ r.drag THEN r
    ELSE [UpdateButtonAfterClick(HIDPButton([r EXCEPT !.drag = FALSE], "Release",
                                            MouseButtonIDToNumber(r)))
          EXCEPT !.dragmode = FALSE]

DragMode(r, enabled) ==
    [IF r.drag /\ ~ enabled THEN DragStop(r) ELSE r EXCEPT !.dragmode = enabled]

DragStart(r) ==
    IF r.drag THEN r
    ELSE [HIDPButton([r EXCEPT !.dragmode = TRUE], "Press", MouseButtonIDToNumber(r))
          EXCEPT !.drag = TRUE]

MousePadDoClick(r) ==
    IF r.dragmode THEN IF r.drag THEN DragStop(r) ELSE DragStart(r)
    ELSE UpdateButtonAfterClick(HIDPButton(r, "Click", MouseButtonIDToNumber(r)))

(* mutant: the button is chosen before the drag is stopped                 *)
SelectButtonFirst(r, id) ==
    LET chosen == [r EXCEPT !.selected = id]
    IN  IF r.drag THEN [DragMode(chosen, FALSE) EXCEPT !.selected = id] ELSE chosen

(* ctlSelectEvent: selecting a button stops dragging.                      *)
SelectButton(r, id) == [IF r.drag THEN DragMode(r, FALSE) ELSE r EXCEPT !.selected = id]
SelectDrag(r) == DragMode(r, ~ r.dragmode)
-----------------------------------------------------------------------------
(* The pad: a stroke moves the pointer, unless it is short enough in time  *)
(* and distance to be a tap.  `moved` is read only while it is tracked.    *)
MousePadHandler(r) == [r EXCEPT !.trackPen = TRUE, !.moved = FALSE]

MousePadDoMovement(r) == [r EXCEPT !.moved = TRUE]
PenMove(r) == IF r.trackPen THEN MousePadDoMovement(r) ELSE r

PenUp(r, tap) ==
    IF ~ r.trackPen THEN r
    ELSE LET done == [r EXCEPT !.trackPen = FALSE, !.moved = FALSE]
         IN  IF tap /\ ~ r.moved THEN MousePadDoClick(done) ELSE done
-----------------------------------------------------------------------------
(* Hard keys while the form is shown.  A pressed arrow moves the pointer   *)
(* at once, and again whenever the timer fires.                            *)
Arrows == {"Up", "Down", "Left", "Right", "SideUp", "SideDown"}

(* mutant: the key is remembered when it is released                       *)
MoveKeyForgotten(r, key, action) ==
    CASE action = "Press"   -> [r EXCEPT !.hardkey = key, !.timer = TRUE]
      [] action = "Release" -> r
      [] OTHER -> r

(* A click of an arrow moves by the key that was pressed last, if any: the *)
(* timer is not scheduled by it.                                           *)
MoveKey(r, key, action) ==
    CASE action = "Press"   -> [r EXCEPT !.hardkey = key, !.timer = TRUE]
      [] action = "Release" -> [r EXCEPT !.hardkey = "none", !.timer = FALSE]
      [] OTHER -> r

(* The timer ends when another form is shown, or no key is held.           *)
HardKeyTimer(r) == [r EXCEPT !.timer = r.form = "Mouse" /\ r.hardkey # "none"]

MouseFormHardKey(r, key, action) ==
    IF key \in Arrows THEN MoveKey(r, key, action) ELSE HIDPButton(r, action, 1)
MouseFormHandles(c) == c.cmd = "HardKey" /\ c.key \in Arrows \cup {"Center", "SideSelect"}
=============================================================================
