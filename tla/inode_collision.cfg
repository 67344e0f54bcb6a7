\* A backup that crosses into a file system with the same inode numbers.
CONSTANTS
    Now = Now  None = None
    Name <- Names
    Byte = {1, 2}
    StoreLimit = 1
    Trees <- MountTree
    Places = {}
    CrossFs = TRUE
    Roots <- EmptyRoot
    MaxEvents = 0
SPECIFICATION Spec
INVARIANTS
    OnlyLinksLinked
CHECK_DEADLOCK FALSE
