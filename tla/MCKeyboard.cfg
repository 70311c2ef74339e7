CONSTANTS
    KEYBOARD_BUFFER_SIZE = 3
    Keys <- MCKeys
    Letters = {"a"}
    Controls = {"enter"}
    Arrows = {"up", "ctrl"}
    Shifts = {"lshift", "rshift"}
    CapsLock = "caps"
    MaxCodes = 4
SPECIFICATION Spec
INVARIANTS
    FifoUntilOverflow
    OnlyTypedCodes
    NothingSticks
PROPERTIES
    RingDrains
