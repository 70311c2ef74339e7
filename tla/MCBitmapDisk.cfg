CONSTANTS
    BITS_PER_BYTE = 2
    SIZE_T = 64
    Shapes <- MCShapes
    MaxReboots = 2
SPECIFICATION Spec
CONSTRAINT HoldersBounded
INVARIANTS
    SingleOwner
    HeldBitsAreSet
    CountFollowsBits
    FailsOnlyWhenFull
