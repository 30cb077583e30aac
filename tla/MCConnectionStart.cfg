CONSTANTS
    MaxCommands = 1
    CrashOnLinkError = FALSE
    DisableAutoOff = FALSE
SPECIFICATION Spec
INVARIANT StartSafe
CHECK_DEADLOCK FALSE
