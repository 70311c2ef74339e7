CONSTANTS
    CELLS = 2
    POINTERS = 1
    BLOCKS = 3
    Numbers = {0, 1}
    Kind <- MCKind
    Handles = {h}
    Seeks = {0, 1}
    MaxSize = 4
    MaxCount = 3
SPECIFICATION Spec
CONSTRAINTS
    Direct
    SomePlain
    FewLoads
INVARIANTS
    OwnBlocks
    FilesHoldTheirContents
    ReadsWhatWasWritten
