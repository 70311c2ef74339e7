CONSTANTS
    INODES = 3
    CACHE = 4
    MaxSize = 3
SPECIFICATION Spec
CONSTRAINT Sound
INVARIANTS
    TypeOK
    UpdatesSurvive
    PointerStaysGood
    OneCopy
    CleanMeansOnDisk
