\* Without the recheck of hashes, but with --detect-bogus: a verification may go
\* on during a backup.
CONSTANTS
    h1 = h1  h2 = h2  file1 = file1  file2 = file2  None = None
    Host = {h1, h2}
    Date = {1}
    File = {file1}
    Tree <- OneFile
    Byte = {0, 1, 2}
    Zero = 0
    Content <- Large2
    StoreLimit = 1
    OverwriteIndex = FALSE
    UseHints = FALSE
    RecheckHash = FALSE
    DeleteClean = TRUE
    DetectBogus = TRUE
    ReadErrors = FALSE
    MaxEvents = 3
    MaxClock = 0
    Overlap <- VerifyDuringBackup
SPECIFICATION Spec
INVARIANTS
    SweepInformed
    SweepComplete
    VerifySound
PROPERTIES
    OnlyWrongDeleted
