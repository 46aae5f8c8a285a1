SPECIFICATION FairSpec
CONSTANTS
    MaxRead = 3
    LimitEntries = 2
    LimitBytes = 1
    MaxBytes = 4
INVARIANTS LinesAsWritten Retention QueriesOK NothingLost
PROPERTIES EndNoticed
CHECK_DEADLOCK FALSE
