\* Nothing is left in the queue, with a host that needs some time to come back.
CONSTANTS
    MaxWaiting = 2
    MaxCommands = 3
    QuickHost = FALSE
    CrashOnLinkError = TRUE
SPECIFICATION Spec
INVARIANTS SentOnce NothingStalls
CHECK_DEADLOCK FALSE
