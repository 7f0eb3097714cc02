SPECIFICATION Spec
CHECK_DEADLOCK FALSE
CONSTANTS
    Values = {1, 2, 3, 4}
    Null = Null
    Garbage = Garbage
    Objects <- Small
    MaxIndices = 4
    ValueLen <- Lengths
    QuerySize = 5
    EntrySize = 12
    OutCap = 24
INVARIANTS TypeOK InOrder Canonical
