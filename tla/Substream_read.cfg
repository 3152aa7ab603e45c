SPECIFICATION Spec
CONSTANTS
    DataLen = {1, 2, 3}
    BufLen = {1, 2, 4}
    MaxBytes = 6
    SameTask = TRUE
CHECK_DEADLOCK FALSE
INVARIANT ReportedWithoutGap
