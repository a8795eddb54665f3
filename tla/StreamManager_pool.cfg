CONSTANTS
    r1 = r1
    r2 = r2
    r3 = r3
    NoRequest = NoRequest
    Requests <- TwoRequests
    InitialLimit = 0
    NewLimits = {1}
    U32Max = 7
    CancelPoints = {"waiting", "starting", "stopping"}
SPECIFICATION Spec
PROPERTIES ImplementsPool
CHECK_DEADLOCK FALSE
