\* A bulk rating of two bundles meets a rating of one of them.
CONSTANTS
    r1 = r1  r2 = r2
    seed = seed  e1 = e1  e2 = e2  e3 = e3
    rating1 = rating1  rating2 = rating2
    low = low  high = high
    Replica = {r1, r2}
    Digest = {seed, e1, e2, e3}
    Genesis = seed
    Unit = {rating1, rating2}
    Value = {low, high}
    InitialValue <- AllLow
    Arrangement = {}
    MaxCandidates = 2
SPECIFICATION Spec
PROPERTIES ChoiceKeepsMerged
CHECK_DEADLOCK FALSE
