\* The five timers of the program, and everything that happens to them.
CONSTANTS
    send = send
    sticky = sticky
    hardkey = hardkey
    progress = progress
    control = control
    Timers = {send, sticky, hardkey, progress, control}
    Send = send
    Senders = {sticky, hardkey}
    Delays = {1, 3}
    SendTimeout = 2
    Resolution = 2
    MaxTime = 4
SPECIFICATION Spec
INVARIANTS HeapOrdered OncePerTick AssertsHold
CHECK_DEADLOCK FALSE
SYMMETRY Alike
