SPECIFICATION Spec
CONSTANTS
    Runs = {r1, r2}
    Lines <- MCLines
    Envs <- MCEnvs
    Req <- MCReq
    Alpha = 4
    Byte = 5
    Group = 3
    Word = 2
    Bad = Bad
    MaxLen = 7
    Contents <- MCContents
    Texts <- MCTexts
SYMMETRY Symmetry
CHECK_DEADLOCK FALSE
INVARIANTS
    TypeOK
    TmpLife
    Outcome
    DeclinedStays
    NoDoubleRequirement
    ZipIsWhatWasPacked
PROPERTY
    ImplicitOnlyIfAbsent
