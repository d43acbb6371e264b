\* A replacing move and a copy back unless taken, with crashes and errors but no outside writes.
CONSTANTS
    Op = {1, 2, 3}
    Path = {1, 2}
    Intent <- MoveCopyTrash
    Present = {1, 2}
    MaxWrites = 0
    MaxCrashes = 2
    MaxStops = 2
SPECIFICATION FairSpec
PROPERTIES StartedFinishes
CHECK_DEADLOCK FALSE
