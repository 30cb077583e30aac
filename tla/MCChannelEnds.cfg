\* A host that may come back at once, and what must end.
CONSTANTS
    MaxWaiting = 1
    MaxCommands = 2
    QuickHost = TRUE
    CrashOnLinkError = FALSE
SPECIFICATION FairSpec
INVARIANTS BufferOwned SendsGuarded
PROPERTIES SendEnds LossNoticed
CHECK_DEADLOCK FALSE
