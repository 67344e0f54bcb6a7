\* One machine with two directories, a hint file and --overwrite, over two
\* seconds: three edits, crashes or deletions of the index.
CONSTANTS
    h1 = h1  h2 = h2  file1 = file1  file2 = file2  None = None
    Host = {h1}
    Date = {1}
    File = {file1, file2}
    Tree <- TwoDirs
    Byte = {0, 1, 2}
    Zero = 0
    Content <- WithEmpty
    StoreLimit = 1
    OverwriteIndex = TRUE
    UseHints = TRUE
    RecheckHash = TRUE
    DeleteClean = TRUE
    DetectBogus = FALSE
    ReadErrors = FALSE
    MaxEvents = 3
    MaxClock = 1
    Overlap <- Alone
SPECIFICATION Spec
INVARIANTS
    HintSound
    LineSound
PROPERTIES
    StoreSpec
