CONSTANTS
    MaxCommands = 2
    CrashOnLinkError = FALSE
    DisableAutoOff = TRUE
SPECIFICATION Spec
INVARIANTS TypeOK ExitKept Reachable ChannelsClosed BothChannels ProgressShown AwakeWhileConnected
CHECK_DEADLOCK FALSE
