CONSTANTS
    BLOCK_SIZE = 2
    PMM_BLOCKS_PER_BYTE = 2
    BITS_PER_WORD = 4
    LOW_WORDS = 2
    RESERVED = 4
    ENTRIES <- MCEntries
    FRAMES <- MCFrames
    MAX_STRAYS = 2
SPECIFICATION PmmSpec
INVARIANTS
    SingleFrameOwner
    RamOnly
    BookkeepingAgrees
    NoSpuriousFailure
