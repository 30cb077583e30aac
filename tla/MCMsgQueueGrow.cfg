\* A growing queue of handles with a callback (the Bluetooth output queues):
\* it grows from 3 over 4 to 5 slots from every rotation, and refuses beyond that.
CONSTANTS
    Handles = {1, 2, 3, 4, 5, 6}
    None = 0
    InitialSize = 3
    MaxQueueSize = 5
    ChunkSlots = 7
    Growing = TRUE
    IsHandles = TRUE
    HasCallback = TRUE
    MaxHeld = 2
SPECIFICATION Spec
ACTION_CONSTRAINT LowestFree
INVARIANTS TypeOK RingOK NoPanic NoLeak QueriesAgree
PROPERTY ImplementsQueue
