SPECIFICATION CopySpec
CONSTANT MaxBytes = 4
INVARIANTS
    CopyTypeOK
    LogShowsAnswer
    FlushedIsSent
