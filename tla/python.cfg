\* hbackup: a machine that renames into place and one that does not, and
\* cleanups, with three edits, failures, deaths or deletions.
CONSTANTS
    h1 = h1  h2 = h2  file1 = file1  file2 = file2  None = None
    Host = {h1, h2}
    Date = {1}
    File = {file1, file2}
    Tree <- Both
    Byte = {0, 1, 2}
    Zero = 0
    Content <- Large2
    StoreLimit = 0
    OverwriteIndex = FALSE
    UseHints = FALSE
    RecheckHash = FALSE
    DeleteClean = FALSE
    DetectBogus = FALSE
    ReadErrors = FALSE
    MaxEvents = 3
    MaxClock = 0
    NoRename = {h2}
    Verbose = TRUE
SPECIFICATION Spec
INVARIANTS
    TypeOK
    PyRestorable
    CutMarked
PROPERTIES
    PyKept
