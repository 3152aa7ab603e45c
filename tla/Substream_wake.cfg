SPECIFICATION FairSpec
CONSTANTS
    DataLen = {1, 2, 3}
    BufLen = {1, 2, 4}
    MaxBytes = 6
    SameTask = FALSE
CHECK_DEADLOCK FALSE
PROPERTY CloseIsNoticed
