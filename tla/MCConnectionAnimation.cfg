CONSTANTS
    MaxCommands = 1
    CrashOnLinkError = FALSE
    DisableAutoOff = FALSE
SPECIFICATION Spec
INVARIANT AnimationShown
CHECK_DEADLOCK FALSE
