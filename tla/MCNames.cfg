CONSTANTS
    INODES = 3
    NAMES <- MCNameSet
    InputPaths <- MCInputPaths
    Behind <- MCBehind
    MaxEntries = 4
SPECIFICATION Spec
CONSTRAINTS
    Sound
    Shallow
INVARIANTS
    UniqueNames
    EntriesInUse
PROPERTIES
    CdKeepsPath
    ImplementsNameSpace
