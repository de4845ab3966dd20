SPECIFICATION MCSpec
CONSTANTS
    Sessions = {s1, s2}
    Subs = {c1}
    Ids <- MCIds
    Apps <- MCApps
    MaxRecords = 2
    Class <- MCClass
    QueueCap = 1
    StatusBound = 3
    OccurrenceBound = 3
    Scenarios = {"notes", "reports", "viewers"}
INVARIANTS
    ViewsConverge
PROPERTIES
    CuesAreNumbered
    MarksAndNotices
CHECK_DEADLOCK FALSE
