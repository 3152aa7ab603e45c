SPECIFICATION FairSpec
CONSTANTS
    DataLen = {1, 2, 3}
    BufLen = {1, 2, 4}
    MaxBytes = 6
    SameTask = TRUE
INVARIANTS
    TypeOK
    IndInv
    NoByteIsLost
    FailsOnlyWhenClosed
    ReportedInOrder
PROPERTIES
    ClosedForGood
    DataIsRead
    CloseIsNoticed
CHECK_DEADLOCK FALSE
