\* Two machines store the same file at the same time, and one of the runs may die.
CONSTANTS
    h1 = h1  h2 = h2  file1 = file1  file2 = file2  None = None
    Host = {h1, h2}
    Date = {1}
    File = {file1}
    Tree <- OneFile
    Byte = {0, 1, 2}
    Zero = 0
    Content <- Large2
    StoreLimit = 1
    OverwriteIndex = FALSE
    UseHints = FALSE
    RecheckHash = TRUE
    DeleteClean = TRUE
    DetectBogus = FALSE
    ReadErrors = FALSE
    MaxEvents = 1
    MaxClock = 0
    Overlap <- BackupsOverlap
SPECIFICATION Spec
INVARIANTS
    PublishedRestorable
