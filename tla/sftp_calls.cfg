\* Every call on names, of any kind, in a directory that another user changes
\* once; a READDIR or a STAT fails; the server has posix-rename or not; replies overtake.
CONSTANTS
    top = top  dir1 = dir1  name1 = name1  name2 = name2
    Path = {dir1, name1, name2}
    Top = top
    Under <- Nested
    Kind = {"none", "file", "dir", "link"}
    Byte = {1, 2, 3}
    Content <- Empty
    PosixRename = {TRUE, FALSE}
    Faults = {"READDIR", "STAT"}
    ReqCap = 2
    RepCap = 2
    MaxChanges = 1
    MaxFaults = 1
    IdMod = 100
    Reorder = TRUE
    ReadQueue = 2
    Space = {1}
    Calls = {"prefigure", "exists", "type", "contents", "mkdir", "rename", "remove"}
    MaxCalls = 2
SPECIFICATION Spec
SYMMETRY NameSymmetry
CHECK_DEADLOCK FALSE
INVARIANTS
    TypeOK
    ReplyMatches
    AnswerCurrent
    EffectExact
    HandlesReturned
