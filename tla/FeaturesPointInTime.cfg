SPECIFICATION Spec
CONSTANTS
    N = 4
    Boundaries <- Cuts
    Tables <- AllTables
    Second = 2
    Days30 = 1
    Days90 = 2
    Absent = Absent
INVARIANTS
    TypeOK
    RowsArePointInTime
    DevelopmentRowsStable
    PartitionsFollowTime
CHECK_DEADLOCK FALSE
