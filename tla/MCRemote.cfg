\* A Treo and a Tungsten, whose navigator tells two directions at once.
CONSTANTS
    HostKeys = {"A", "UpArrow", "PageUp", "Return"}
    MaxPressed = 3
    Hands <- TwoHands
    Keyboards <- TwoKeyboards
    Choices = {"Left", "Right"}
    MaxFingers = 1
    MaxEvents = 3
SPECIFICATION Spec
INVARIANTS KeysExplained PointerRests FormReached
