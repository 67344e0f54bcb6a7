\* Reading in pieces of one and two bytes with four requests ahead, and writing,
\* through pipes that hold one request and two replies; a READ or WRITE fails or
\* the connection is lost; replies overtake each other.
CONSTANTS
    top = top  dir1 = dir1  name1 = name1  name2 = name2
    Path = {name1}
    Top = top
    Under <- OneName
    Kind = {"none", "file"}
    Byte = {1, 2, 3, 4}
    Content <- FourBytes
    PosixRename = {TRUE}
    Faults = {"READ", "WRITE", "HANGUP"}
    ReqCap = 1
    RepCap = 2
    MaxChanges = 0
    MaxFaults = 1
    IdMod = 100
    Reorder = TRUE
    ReadQueue = 4
    Space = {1, 2}
    Calls = {"prefigure", "exists", "open", "read", "write", "close"}
    MaxCalls = 5
SPECIFICATION FairSpec
CHECK_DEADLOCK FALSE
INVARIANTS
    ReadInOrder
    FlushedIsStored
PROPERTY
    CallsReturn
