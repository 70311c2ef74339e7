SPECIFICATION AtaSpec
CONSTANTS
    ATA_SECTOR_WORD_COUNT = 2
    Lbas <- MCLbas
    Writes <- MCWrites
    Reads <- MCReads
INVARIANTS
    SuccessMeansDone
    SectorsInOrder
PROPERTY CallsReturn
