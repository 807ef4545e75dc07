SPECIFICATION Spec
CONSTANTS
    Ids <- MCIds
    Null = Null
    MaxDepth = 2
    MaxIds = 3
    MaxLevel = 2
    MaxUpdates = 1
INVARIANTS
    TypeOK
    ProcExact
    ProcShape
    DownExact
    UpExact
PROPERTIES
    CallAdvances
    CallEnds
