----------------------------- MODULE HIDControl -----------------------------
(***************************************************************************)
(* src/HIDProtocol.c, the host's side of the conversation: what each       *)
(* message of the host changes, what it is answered, and which commands    *)
(* tell the forms about it; and the commands that the input side of        *)
(* HIDProtocol.tla queues.                                                 *)
(*                                                                         *)
(* A handler maps a record k to its new value: k.hidp is the input side,   *)
(* k.control collects what is sent on the control channel, k.cmds is the   *)
(* command queue; leds, suspended, bootProtocol and idleRate are the rest  *)
(* of HIDPGlobals.  k.reset is a ghost: what was reset under the forms.    *)
(***************************************************************************)
EXTENDS Integers, Sequences, FiniteSets

CONSTANTS
    Mods, Keys, RollOver, KeyBufferSize, MaxKeys, StickyTime, \* see HIDProtocol
    Leds,      \* the keys with a light
    IdleRates  \* the idle rates the host sets

HID == INSTANCE HIDProtocol
       WITH Buttons <- {}, Masks <- {}, Moves <- {}, MaxStep <- 127, MaxMotion <- 0,
            hidp <- {}, held <- {}, down <- {}, linked <- TRUE, busy <- FALSE, host <- {}

(* The codes of modifier keys are a range of their own.                    *)
ASSUME HIDControlAssumption ==
    /\ Mods \subseteq HID!AllMods /\ Mods \cap Keys = {} /\ RollOver \notin Keys
    /\ MaxKeys \in Nat /\ KeyBufferSize \in Nat /\ 0 < MaxKeys /\ MaxKeys < KeyBufferSize
    /\ StickyTime \in Nat \ {0}
    /\ Leds \subseteq Keys /\ IdleRates \subseteq 0 .. 255 /\ 0 \in IdleRates

Enqueue(k, c) == [k EXCEPT !.cmds = Append(@, c)]
ModifiersChanged == [cmd |-> "ModifiersChanged"]
LedsChanged      == [cmd |-> "LedsChanged"]
ResetHIDState    == [cmd |-> "ResetHIDState"]
UnplugReceived   == [cmd |-> "UnplugReceived"]
-----------------------------------------------------------------------------
(* The input side, with the commands it queues.                            *)
Input(k, s) == [k EXCEPT !.hidp = [s EXCEPT !.keyboard = <<>>, !.mouse = <<>>]]

Again(k, c, n) == [k EXCEPT !.cmds = @ \o [i \in 1 .. n |-> c]]
Releases(action) == CASE action = "Press" -> 0 [] action = "DoubleClick" -> 2 [] OTHER -> 1

(* mutant: the light's button is left as the tap has set it                *)
KeyboardLedsLeft(k, action, key, m) ==
    IF key \in Mods
    THEN Input(Enqueue(k, ModifiersChanged), HID!HIDPModifier(k.hidp, action, key))
    ELSE LET used == action # "Press" /\ m.current /\ HID!Sticky(k.hidp) # {}
         IN  Input(IF used THEN Enqueue(k, ModifiersChanged) ELSE k,
                   HID!HIDPKeyboard(k.hidp, action, key, m))

(* mutant: nobody hears that a key has used a sticky modifier up           *)
KeyboardUsedSilently(k, action, key, m) ==
    IF key \in Mods
    THEN Input(Enqueue(k, ModifiersChanged), HID!HIDPModifier(k.hidp, action, key))
    ELSE Input(IF key \in Leds THEN Again(k, LedsChanged, Releases(action)) ELSE k,
               HID!HIDPKeyboard(k.hidp, action, key, m))

(* A key with a light brings its button back to what the host says; a key  *)
(* that uses sticky modifiers up says so.                                  *)
Keyboard(k, action, key, m) ==
    IF key \in Mods
    THEN Input(Enqueue(k, ModifiersChanged), HID!HIDPModifier(k.hidp, action, key))
    ELSE LET lit == IF key \in Leds THEN Again(k, LedsChanged, Releases(action)) ELSE k
             used == action # "Press" /\ m.current /\ HID!Sticky(k.hidp) # {}
         IN  Input(IF used THEN Enqueue(lit, ModifiersChanged) ELSE lit,
                   HID!HIDPKeyboard(k.hidp, action, key, m))

StickyTimer(k) ==
    Input(IF HID!Sticky(k.hidp) # {} THEN Enqueue(k, ModifiersChanged) ELSE k,
          HID!StickyTimer(k.hidp))

(* The forms are told to reset, a command that none of them handles.       *)
HIDPReset(k) ==
    Enqueue([Input(k, HID!HIDPReset(k.hidp)) EXCEPT !.leds = {}, !.reset = {"mods", "leds"}],
            ResetHIDState)

HIDPLeds(k) == k.leds
HIDPModifiers(k) ==
    k.hidp.modifiers \cup {b \in Mods : k.hidp.modstate[b] = "LockedPressed"}
HIDPModifierState(k, b) == k.hidp.modstate[b]
-----------------------------------------------------------------------------
(* What is sent on the control channel.                                    *)
SendHandshake(k, code) ==
    [k EXCEPT !.control = Append(@, [type |-> "Handshake", code |-> code])]
Invalid(k) == SendHandshake(k, "ErrInvalidParameter")

SendData(k, report, data) ==
    [k EXCEPT !.control = Append(@, [type |-> "Data", report |-> report, data |-> data])]

(* A mouse report carries motion: what it tells is no longer to be told.   *)
SendInputReport(k, id) ==
    CASE id = 1 -> SendData(k, "Input", HID!KeyReport(k.hidp.modifiers, k.hidp.pressed))
      [] id = 2 -> LET s == HID!SendMouse(k.hidp)
                   IN  SendData(Input(k, s), "Input", s.mouse[Len(s.mouse)])
      [] id \in {3, 4} -> SendData(k, "Input", "idle")
      [] OTHER  -> k
SendOutputReport(k, id)  == IF id = 1 THEN SendData(k, "Output", k.leds) ELSE k
SendFeatureReport(k, id) == IF id = 5 THEN SendData(k, "Feature", "battery") ELSE k

ProcessOutputReport(k, m) ==
    IF m.id = 1 THEN Enqueue([k EXCEPT !.leds = m.leds], LedsChanged) ELSE k

ProcessControl(k, m) ==
    CASE m.code \in {"HardReset", "SoftReset"} -> SendHandshake(HIDPReset(k), "Successful")
      [] m.code = "NOP"         -> SendHandshake(k, "Successful")
      [] m.code = "Suspend"     -> SendHandshake([k EXCEPT !.suspended = TRUE], "Successful")
      [] m.code = "ExitSuspend" -> SendHandshake([k EXCEPT !.suspended = FALSE], "Successful")
      [] m.code = "Unplug"      -> Enqueue(k, UnplugReceived)
      [] OTHER                  -> Invalid(k)

ProcessGetReport(k, m) ==
    IF m.short THEN Invalid(k)
    ELSE LET answer == CASE m.report = "Input"   -> SendInputReport(k, m.id)
                         [] m.report = "Output"  -> SendOutputReport(k, m.id)
                         [] m.report = "Feature" -> SendFeatureReport(k, m.id)
                         [] OTHER                -> k
         IN  IF answer = k THEN Invalid(k) ELSE answer

(* The lights are set, and yet the answer is an error.                     *)
ProcessSetReport(k, m) ==
    IF m.short \/ m.report \notin {"Input", "Output"} THEN Invalid(k)
    ELSE IF m.report = "Input" THEN SendHandshake(k, "Successful")
    ELSE Invalid(ProcessOutputReport(k, m))

ProcessGetProtocol(k) == SendData(k, "Other", IF k.bootProtocol THEN 0 ELSE 1)
(* mutant: the bit is not negated                                          *)
ProcessSetProtocolInverted(k, m) ==
    SendHandshake([k EXCEPT !.bootProtocol = (m.value = 1)], "Successful")
ProcessSetProtocol(k, m) ==
    SendHandshake([k EXCEPT !.bootProtocol = (m.value = 0)], "Successful")
ProcessGetIdle(k) == SendData(k, "Other", k.idleRate)
ProcessSetIdle(k, m) ==
    IF m.short THEN Invalid(k) ELSE SendHandshake([k EXCEPT !.idleRate = m.value], "Successful")

(* Handshakes, and data that belongs on the other channel, are ignored.    *)
ProcessControlMessage(k, m) ==
    CASE m.type \in {"Handshake", "Data", "DatC"} -> k
      [] m.type = "HIDControl"  -> ProcessControl(k, m)
      [] m.type = "GetReport"   -> ProcessGetReport(k, m)
      [] m.type = "SetReport"   -> ProcessSetReport(k, m)
      [] m.type = "GetProtocol" -> ProcessGetProtocol(k)
      [] m.type = "SetProtocol" -> ProcessSetProtocol(k, m)
      [] m.type = "GetIdle"     -> ProcessGetIdle(k)
      [] m.type = "SetIdle"     -> ProcessSetIdle(k, m)
      [] OTHER -> SendHandshake(k, "ErrUnsupportedRequest")

ProcessInterruptMessage(k, m) ==
    IF m.type = "Data" /\ m.report = "Output" THEN ProcessOutputReport(k, m) ELSE k
-----------------------------------------------------------------------------
(* What a host may say.  `leds` is the byte that follows the report's      *)
(* identifier, which the code reads even where the message has ended.      *)
Reports == {"Input", "Output", "Feature", "Other"}
ControlMessages ==
    [type : {"Handshake", "Data", "DatC", "GetProtocol", "GetIdle", "Reserved"}]
    \cup [type : {"HIDControl"},
          code : {"NOP", "HardReset", "SoftReset", "Suspend", "ExitSuspend", "Unplug", "Reserved"}]
    \cup [type : {"GetReport"}, short : {FALSE}, report : Reports, id : {0, 1, 2, 5}]
    \cup [type : {"SetReport"}, short : {FALSE}, report : Reports, id : {0, 1}, leds : SUBSET Leds]
    \cup [type : {"GetReport", "SetReport"}, short : {TRUE}, report : {"Input", "Output"}]
    \cup [type : {"SetProtocol"}, value : {0, 1}]
    \cup [type : {"SetIdle"}, short : {FALSE}, value : IdleRates]
    \cup [type : {"SetIdle"}, short : {TRUE}]
InterruptMessages ==
    [type : {"Data"}, report : Reports, id : {0, 1}, leds : SUBSET Leds]
    \cup [type : {"DatC", "Reserved"}]
=============================================================================
