\* An application is interrupted, retried and cancelled.
CONSTANTS
    Op = {1, 2}
    Path = {1, 2}
    Intent <- TrashUndo
    Present = {1, 2}
    MaxWrites = 0
    MaxCrashes = 1
    MaxStops = 0
SPECIFICATION Spec
INVARIANTS CapturedNotAbandoned
CHECK_DEADLOCK FALSE
