SPECIFICATION Spec
CONSTANTS
    Ops = {op1}
    Pids = {p1, p2, p3}
    N = 2
    Limit <- MCLimit
    Events <- NoEvents
INVARIANTS
    StartsOnlyStopped
