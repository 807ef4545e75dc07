SPECIFICATION Spec
CONSTANTS
    Ops = {op1, op2}
    Pids = {p1, p2, p3}
    N = 2
    Limit <- PairLimit
    Events <- PairEvents
SYMMETRY Symmetry
CONSTRAINT LogBound
INVARIANTS
    QuietSpared
