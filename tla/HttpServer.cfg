SPECIFICATION FairSpec
CONSTANTS
    c1 = c1
    c2 = c2
    c3 = c3
    Conns = {c1, c2, c3}
    Size = 2
    Requests <- MCRequests
    Files <- MCFiles
    MaxVec = 9
    NoConn = NoConn
CHECK_DEADLOCK FALSE
INVARIANTS
    TypeOK
    ServedOnce
    
    LockNotLost
    
PROPERTIES
    Answered
    DropEnds
