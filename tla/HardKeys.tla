------------------------------ MODULE HardKeys ------------------------------
(***************************************************************************)
(* src/HardKeys.c: what the keys of a handheld become.  An event of the    *)
(* system is a record e: its type (KeyDown, KeyUp, KeyHold), the character *)
(* and the key it stands for (key "none": no key, Graffiti), and its       *)
(* modifiers: option, up (there will be a KeyUp), repeat, on (the poweredOn *)
(* bit, by which the Treo marks releases) and virtual.  A navigator's      *)
(* event has the directions that changed and those that are down.          *)
(*                                                                         *)
(* A handler yields the commands it queues and whether it handles e.       *)
(***************************************************************************)
EXTENDS Integers, Sequences, FiniteSets

Devices == {"Treo", "Tungsten", "Other"}

HardKey(key, action) == <<[cmd |-> "HardKey", key |-> key, action |-> action]>>
Click(key, shift) == <<[cmd |-> "Keyboard", key |-> key, action |-> "Click", shift |-> shift]>>

Handled(cmds) == [cmds |-> cmds, handled |-> "yes"]
Pass  == [cmds |-> <<>>, handled |-> "no"]
Never == [cmds |-> <<>>, handled |-> "never"]

(* The characters of a key without and with Shift.                         *)
Letters ==
    {<<"a", "A">>, <<"b", "B">>, <<"c", "C">>, <<"d", "D">>, <<"e", "E">>, <<"f", "F">>,
     <<"g", "G">>, <<"h", "H">>, <<"i", "I">>, <<"j", "J">>, <<"k", "K">>, <<"l", "L">>,
     <<"m", "M">>, <<"n", "N">>, <<"o", "O">>, <<"p", "P">>, <<"q", "Q">>, <<"r", "R">>,
     <<"s", "S">>, <<"t", "T">>, <<"u", "U">>, <<"v", "V">>, <<"w", "W">>, <<"x", "X">>,
     <<"y", "Y">>, <<"z", "Z">>}
Symbols ==
    {<<"`", "~">>, <<"1", "!">>, <<"2", "@">>, <<"3", "#">>, <<"4", "$">>, <<"5", "%">>,
     <<"6", "^">>, <<"7", "&">>, <<"8", "*">>, <<"9", "(">>, <<"0", ")">>, <<"-", "_">>,
     <<"=", "+">>, <<"[", "{">>, <<"]", "}">>, <<"\\", "|">>, <<";", ":">>, <<"'", "\"">>,
     <<",", "<">>, <<".", ">">>, <<"/", "?">>}
Named ==
    [backspace |-> "Backspace", tab |-> "Tab", newline |-> "Return", verticalTab |-> "PageUp",
     formFeed |-> "PageDown", numericSpace |-> "Space", space |-> "Space", escape |-> "LeftArrow",
     fileSeparator |-> "RightArrow", groupSeparator |-> "UpArrow", recordSeparator |-> "DownArrow"]

(* A character that no key of the device stands for is typed as a click of *)
(* the key that has it, with Shift forced on or off; a letter's key is     *)
(* named by its capital.                                                   *)
virtualChars(chr) ==
    IF chr \in DOMAIN Named THEN Click(Named[chr], "current")
    ELSE IF \E p \in Letters : p[1] = chr
         THEN Click((CHOOSE p \in Letters : p[1] = chr)[2], "off")
    ELSE IF \E p \in Letters : p[2] = chr THEN Click(chr, "on")
    ELSE IF \E p \in Symbols : p[1] = chr THEN Click(chr, "off")
    ELSE IF \E p \in Symbols : p[2] = chr
         THEN Click((CHOOSE p \in Symbols : p[2] = chr)[1], "on")
    ELSE <<>>
-----------------------------------------------------------------------------
(* The first pass, with override: keys whose events the system would use.  *)
TreoKeys ==
    [PageUp |-> "Up", RockerUp |-> "Up", PageDown |-> "Down", RockerDown |-> "Down",
     RockerLeft |-> "Left", RockerRight |-> "Right",
     RockerCenter |-> "Center", HardRockerCenter |-> "Center",
     Hard1 |-> "Hard1", OptHard1 |-> "Hard1", Hard2 |-> "Hard2", OptHard2 |-> "Hard2",
     Hard3 |-> "Hard3", OptHard3 |-> "Hard3", Hard11 |-> "Send", OptHard11 |-> "Send",
     Symbol |-> "Alt", space |-> "Space", newline |-> "Enter", backspace |-> "Backspace",
     period |-> "Period", zero |-> "Zero"]
TreoOptions == [Up |-> "PageUp", Down |-> "PageDown", Left |-> "Home", Right |-> "End",
                Space |-> "Tab", Backspace |-> "Escape"]
TreoModifiers == [LeftShift |-> "LeftShift", RightShift |-> "RightShift", SymbolKey |-> "Alt"]
TreoUntouched == {"Hard4", "OptHard4", "HardPower", "OptHardPower", "Launch", "Menu"}

Chr(e) == CASE e.chr = "." -> "period" [] e.chr = "0" -> "zero" [] OTHER -> e.chr

(* Option changes what a press means; a release is always the key's own.   *)
TreoSpecials(override, e, action) ==
    IF ~ override \/ e.key = "none" THEN Pass
    ELSE IF Chr(e) \in DOMAIN TreoKeys
         THEN LET key == TreoKeys[Chr(e)]
                  optional == e.option /\ action # "Release"
              IN  IF optional /\ key \in DOMAIN TreoOptions
                  THEN Handled(Click(TreoOptions[key], "current"))
                  ELSE IF optional /\ key \in {"Period", "Zero"} THEN Never
                  ELSE Handled(HardKey(key, action))
    ELSE IF e.chr = "ModifierKey" /\ e.key \in DOMAIN TreoModifiers
         THEN Handled(HardKey(TreoModifiers[e.key], action))
    ELSE IF e.chr \in TreoUntouched \cup {"ModifierKey"} THEN Never ELSE Pass

TungstenSpecials(override, e, action) ==
    IF ~ override THEN Pass
    ELSE IF e.chr = "Hard5" THEN Handled(HardKey("SideSelect", action))
    ELSE IF e.chr \in {"Launch", "Menu"} THEN Never ELSE Pass

(* A five-way navigator tells several changes at once.                     *)
NavChange(e) ==
    LET Change(key) == IF key \notin e.changed THEN <<>>
                       ELSE HardKey(key, IF key \in e.down THEN "Press" ELSE "Release")
    IN  Change("Up") \o Change("Down") \o Change("Left") \o Change("Right") \o Change("Center")

OverriddenKeys ==
    [PageUp |-> "Up", RockerUp |-> "Up", PageDown |-> "Down", RockerDown |-> "Down",
     RockerLeft |-> "Left", RockerRight |-> "Right",
     RockerCenter |-> "Center", HardRockerCenter |-> "Center",
     Hard1 |-> "Hard1", Hard2 |-> "Hard2", Hard3 |-> "Hard3", Hard4 |-> "Hard4",
     VolumeUp |-> "SideUp", VolumeDown |-> "SideDown", Side |-> "SideSelect"]

DefaultOverrides(e, action) ==
    IF e.chr = "NavChange" THEN Handled(NavChange(e))
    ELSE IF e.chr \in DOMAIN OverriddenKeys THEN Handled(HardKey(OverriddenKeys[e.chr], action))
    ELSE Pass

(* The second pass, after the system: what is typed.                       *)
TypedKeys == [backspace |-> "Backspace", newline |-> "Enter", tab |-> "Tab",
              escape |-> "Escape", space |-> "Space"]

DefaultHandler(e, action) ==
    IF e.key # "none" /\ \E p \in Letters : e.chr \in {p[1], p[2]}
    THEN Handled(HardKey((CHOOSE p \in Letters : e.chr \in {p[1], p[2]})[2], action))
    ELSE IF e.key # "none" /\ e.chr \in DOMAIN TypedKeys
    THEN Handled(HardKey(TypedKeys[e.chr], action))
    ELSE IF (e.key # "none" /\ action = "Release") \/ virtualChars(e.chr) = <<>> THEN Pass
    ELSE Handled(virtualChars(e.chr))

Action(e) == CASE e.type = "KeyUp" -> "Release"
               [] e.type = "KeyDown" /\ e.up -> "Press"
               [] OTHER -> "Click"

HardKeyProcessEvent(device, enabled, hardkeyOverride, override, e) ==
    IF ~ enabled \/ (override /\ ~ hardkeyOverride) \/ e.type = "Nil" THEN Pass
    ELSE IF e.type = "KeyHold" THEN Handled(<<>>)
    ELSE IF e.type = "KeyDown" /\ e.repeat THEN IF e.virtual THEN Pass ELSE Handled(<<>>)
    ELSE LET special == CASE device = "Treo"     -> TreoSpecials(override, e, Action(e))
                          [] device = "Tungsten" -> TungstenSpecials(override, e, Action(e))
                          [] OTHER               -> Pass
         IN  IF special.handled # "no" THEN special
             ELSE IF override THEN DefaultOverrides(e, Action(e)) ELSE DefaultHandler(e, Action(e))

(* Before all that, on the Treo, the system asks about each event that it  *)
(* takes off its queue.  The keys on the side are handled here; their      *)
(* releases come as presses with the poweredOn bit.                        *)
Untouched == {"HardPower", "OptHardPower", "Launch", "Menu"}
SideKeys  == [VolumeUpKey |-> "SideUp", VolumeDownKey |-> "SideDown", SideKey |-> "SideSelect"]

TreoNotifyCallback(device, enabled, hardkeyOverride, e) ==
    IF device # "Treo" \/ ~ enabled \/ ~ hardkeyOverride \/ e.chr \in Untouched THEN Pass
    ELSE IF e.type = "KeyHold"
         THEN IF e.key \in DOMAIN SideKeys \/ \E p \in Letters : e.key = p[2]
              THEN Handled(<<>>) ELSE Pass
    ELSE IF e.type = "KeyDown" /\ e.repeat /\ ~ e.on THEN Handled(<<>>)
    ELSE IF e.key \in DOMAIN SideKeys
         THEN Handled(HardKey(SideKeys[e.key],
                              IF e.type = "KeyUp" \/ e.on THEN "Release" ELSE Action(e)))
    ELSE Pass

(* What an event becomes on its way through the event loop.                *)
Process(device, enabled, hardkeyOverride, e) ==
    LET asked == TreoNotifyCallback(device, enabled, hardkeyOverride, e)
        first == HardKeyProcessEvent(device, enabled, hardkeyOverride, TRUE, e)
    IN  IF asked.handled = "yes" THEN asked.cmds
        ELSE IF first.handled = "yes" THEN first.cmds
        ELSE HardKeyProcessEvent(device, enabled, hardkeyOverride, FALSE, e).cmds
=============================================================================
