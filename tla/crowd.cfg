\* Everything overlaps with everything.
CONSTANTS
    h1 = h1  h2 = h2  file1 = file1  file2 = file2  None = None
    Host = {h1, h2}
    Date = {1}
    File = {file1}
    Tree <- OneFile
    Byte = {0, 1, 2}
    Zero = 0
    Content <- OneBlock
    StoreLimit = 0
    OverwriteIndex = FALSE
    UseHints = FALSE
    RecheckHash = TRUE
    DeleteClean = TRUE
    DetectBogus = TRUE
    ReadErrors = TRUE
    MaxEvents = 1
    MaxClock = 0
    Overlap <- Anything
SPECIFICATION ProgressSpec
PROPERTIES
    RunsEnd
