CONSTANTS
    r1 = r1
    r2 = r2
    r3 = r3
    NoRequest = NoRequest
    Requests <- TwoRequests
    InitialLimit = 1
    NewLimits = {}
    U32Max = 7
    CancelPoints = {"starting"}
SPECIFICATION FairSpec
PROPERTIES SlotReturned
CHECK_DEADLOCK FALSE
