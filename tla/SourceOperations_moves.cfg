\* A replacing move and its undo, with two outside writes, a crash and an error.
CONSTANTS
    Op = {1, 2, 3}
    Path = {1, 2}
    Intent <- MoveTrashUndo
    Present = {1, 2}
    MaxWrites = 2
    MaxCrashes = 1
    MaxStops = 1
SPECIFICATION Spec
INVARIANTS CatalogFollowsFiles
PROPERTIES OriginalsKept SuccessIsTrue CancelledStays
CHECK_DEADLOCK FALSE
