CONSTANTS
    Lower <- MCLower
    SplitField <- MCSplit
    LogEntry <- MCEntries
    Requests <- MCRequests
    DefaultLimit = 3
    BloomEnabled = TRUE
    MaxSegments = 3
    MaxRecords = 4
SPECIFICATION Spec
INVARIANTS
    ExecuteExact
    
CHECK_DEADLOCK FALSE
