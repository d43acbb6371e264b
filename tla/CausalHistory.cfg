\* Three replicas, three edits under two operation ids each.
CONSTANTS
    r1 = r1  r2 = r2  r3 = r3
    op1 = op1  op2 = op2
    seed = seed  e1 = e1  e2 = e2  e3 = e3
    Replica = {r1, r2, r3}
    Operation = {op1, op2}
    Digest = {seed, e1, e2, e3}
    Genesis = seed
SYMMETRY Symmetry
SPECIFICATION Spec
INVARIANTS CausallyClosed LineageHolds
CHECK_DEADLOCK FALSE
