SPECIFICATION FairSpec
CONSTANTS
    MaxRequests = 3
    MaxParts = 2
    MaxBatches = 2
    Ops <- MCOps
CHECK_DEADLOCK FALSE
INVARIANTS RemoteAccounted 
PROPERTIES AnsweredOnce 
