SPECIFICATION FairSpec
CONSTANTS
    Absent = Absent
    Bad = Bad
    Files <- MCFiles
    ArgLists <- MCArgLists
CHECK_DEADLOCK FALSE
INVARIANTS ServeInv  PanicNeedsFailedStart
PROPERTIES CommandEnds
