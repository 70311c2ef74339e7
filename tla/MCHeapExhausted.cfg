CONSTANTS
    BLOCK_SIZE = 4
    PMM_BLOCKS_PER_BYTE = 2
    BITS_PER_WORD = 4
    LOW_WORDS = 2
    RESERVED = 3
    ENTRIES <- MCEntries
    FRAMES <- MCFrames
    HEAP_START = 64
    HEAP_MAX_ORDER = 2
    HEADER = 1
    PHYSMAP_FRAME = 8
    Tables <- MCTables
    AFTER_LIST = 8
    Requests <- MCServable
SPECIFICATION Spec
CHECK_DEADLOCK FALSE
INVARIANTS
    MallocComesBack
