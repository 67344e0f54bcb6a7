\* Five indexes, written through a buffer of 3 bytes and read while they are
\* written, in lines or in pieces.
CONSTANTS
    Bad = Bad
    HashSize = 1
    Cases <- SomeCases
    GetSizes = {1, 2, 4}
    BufSize = 3
    Junk = {97}
    TableSize = 2
    MaxShort = 2
    BlockSize = 5
    WordMod = 64
SPECIFICATION Spec
INVARIANTS
    TypeOK
    NoneLost
    LinesRight
    NeededRight
    GetsInOrder
    HashOfWhole
PROPERTIES
    NothingMeansEnd
CHECK_DEADLOCK FALSE
