\* A replica that has only the folder takes the seed and one edit; copies may be lost.
CONSTANTS
    r1 = r1  r2 = r2
    op1 = op1
    seed = seed  e1 = e1
    None = None
    Replica = {r1, r2}
    Operation = {op1}
    Digest = {seed, e1}
    Genesis = seed
    Opened = {r1}
    Segmented = {}
    MaxFaults = 1
SPECIFICATION FairSpec
PROPERTIES SavedWorkArrives OutboxDrains
CHECK_DEADLOCK FALSE
