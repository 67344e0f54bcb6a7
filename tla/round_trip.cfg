\* Three trees, changed while they are backed up without crossing file systems;
\* restores that die, two such events in all.
CONSTANTS
    Now = Now  None = None
    Name <- Names
    Byte = {1, 2}
    StoreLimit = 1
    Trees <- AllTrees
    Places <- SomePlaces
    CrossFs = FALSE
    Roots <- AllRoots
    MaxEvents = 2
SPECIFICATION Spec
INVARIANTS
    TypeOK
    DirectoriesTogether
    UnchangedListed
    LinesRestored
    NothingLeft
    RestoredRight
    NeverTorn
PROPERTIES
    RestoreSucceeds
CHECK_DEADLOCK FALSE
