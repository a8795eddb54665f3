CONSTANTS
    r1 = r1
    r2 = r2
    r3 = r3
    NoRequest = NoRequest
    Requests <- TwoRequests
    InitialLimit = 1
    NewLimits = {1}
    U32Max = 7
    CancelPoints = {"waiting"}
SPECIFICATION ClosingSpec
PROPERTIES CallerServed FreeSlotIsUsed SlotReturned
CHECK_DEADLOCK FALSE
