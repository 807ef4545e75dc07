SPECIFICATION FairSpec
CONSTANTS
    Ops = {op1}
    Pids = {p1, p2, p3, p4}
    N = 3
    Limit <- MCLimit
    Events <- SoloEvents
INVARIANTS
    TypeOK
    RecordedPrefix
PROPERTIES
    ScriptAdvances
    BookSpec
    ScriptEnds
