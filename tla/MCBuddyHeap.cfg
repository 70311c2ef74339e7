CONSTANTS
    MaxOrder = 3
    HeapStart = 16
    Size <- MCSize
SPECIFICATION Spec
INVARIANTS
    Disjoint
    Covered
