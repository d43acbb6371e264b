\* Two replicas, three events over a moment's span and the arrangement that owns it.
CONSTANTS
    r1 = r1  r2 = r2
    seed = seed  e1 = e1  e2 = e2  e3 = e3
    span = span  members = members
    low = low  high = high
    Replica = {r1, r2}
    Digest = {seed, e1, e2, e3}
    Genesis = seed
    Unit = {span, members}
    Value = {low, high}
    InitialValue <- AllLow
    Arrangement = {members}
    MaxCandidates = 2
SYMMETRY Symmetry
SPECIFICATION Spec
INVARIANTS TypeOK Projection HoldsSound
PROPERTIES ChoiceSettles ImplementsCausalHistory
CHECK_DEADLOCK FALSE
