\* Backups of two machines, cleanups with --delete and verifications, one run
\* at a time, with two edits, crashes or deletions of an index; a backup that
\* died or met an edit is started again.
CONSTANTS
    h1 = h1  h2 = h2  file1 = file1  file2 = file2  None = None
    Host = {h1, h2}
    Date = {1}
    File = {file1, file2}
    Tree <- OneDir
    Byte = {0, 1, 2}
    Zero = 0
    Content <- Large2
    StoreLimit = 1
    OverwriteIndex = FALSE
    UseHints = FALSE
    RecheckHash = TRUE
    DeleteClean = TRUE
    DetectBogus = FALSE
    ReadErrors = FALSE
    MaxEvents = 2
    MaxClock = 0
    Overlap <- Alone
SPECIFICATION FairSpec
INVARIANTS
    TypeOK
    ObjectsIntact
    PublishedRestorable
PROPERTIES
    StoreSpec
    RetrySucceeds
