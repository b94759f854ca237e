CONSTANTS
    MaxRecords = 2
    MaxSize = 1
    MaxPage = 1
    Budget = 5
SPECIFICATION PagingSpec
CHECK_DEADLOCK FALSE
INVARIANTS
    NothingDropped
