\* Two replicas that both have the seed exchange two edits, one of them in two objects.
CONSTANTS
    r1 = r1  r2 = r2
    op1 = op1
    seed = seed  e1 = e1  e2 = e2
    None = None
    Replica = {r1, r2}
    Operation = {op1}
    Digest = {seed, e1, e2}
    Genesis = seed
    Opened = {r1, r2}
    Segmented = {e1}
    MaxFaults = 0
SPECIFICATION Spec
INVARIANTS CompleteActivation AuthoredWorkKept
PROPERTIES ImplementsCausalHistory
CHECK_DEADLOCK FALSE
