\* Buttons and motion on a channel that is busy or idle, and the sticky timer,
\* which two modifiers share.
CONSTANTS
    Mods = {"LeftControl", "LeftShift"}
    Keys = {}
    RollOver = RollOver
    KeyBufferSize = 2
    MaxKeys = 1
    Buttons = {1, 2}
    Masks <- FewMasks
    Moves <- SomeMoves
    MaxStep = 2
    MaxMotion = 3
    StickyTime = 2
SPECIFICATION FairSpec
INVARIANTS ButtonShown MotionFlushed
PROPERTY StickyEnds
