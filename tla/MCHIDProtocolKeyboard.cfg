\* Modifiers that latch, keystrokes that borrow modifiers while other keys are
\* down, more keys than a report holds, more even than are remembered.
CONSTANTS
    Mods = {"LeftShift", "RightShift", "RightAlt"}
    Keys = {a, b, c, d}
    RollOver = RollOver
    KeyBufferSize = 3
    MaxKeys = 2
    Buttons = {}
    Masks <- ManyMasks
    Moves = {}
    MaxStep = 1
    MaxMotion = 0
    StickyTime = 1
SYMMETRY KeySymmetry
SPECIFICATION Spec
INVARIANTS TypeOK ModConsistent StickyTimed HostInSync NothingStuck KeystrokeShown
