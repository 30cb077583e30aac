\* The keyboard form with modifiers on one and on several screens, a light on
\* two screens, a hard key, and a host that resets and lights.
CONSTANTS
    Mods = {"LeftAlt", "RightAlt"}
    Keys = {"A", "NumLock"}
    Leds = {"NumLock"}
    RollOver = "RollOver"
    KeyBufferSize = 2
    MaxKeys = 1
    StickyTime = 1
    IdleRates = {0, 5}
    HardMods = {"LeftAlt"}
    Messages <- Resets
    MaxCommands = 1
SPECIFICATION Spec
INVARIANTS ModifiersShown LedsShown AnswersTrue
