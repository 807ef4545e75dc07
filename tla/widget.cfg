SPECIFICATION Spec
CONSTANTS
    Rows = {r1, r2, r3}
    Cols = 2
    Texts = {1, 2, 3}
    Needles <- MCNeedles
    MaxEvents = 4
CHECK_DEADLOCK FALSE
INVARIANTS
    TypeOK
    ShownMatches
PROPERTIES
    HeadSortsColumn
    SecondClickReverses
