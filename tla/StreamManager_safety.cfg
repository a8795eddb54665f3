CONSTANTS
    r1 = r1
    r2 = r2
    r3 = r3
    NoRequest = NoRequest
    Requests <- ThreeRequests
    InitialLimit = 2
    NewLimits = {}
    U32Max = 7
    CancelPoints = {}
SPECIFICATION Spec
SYMMETRY Symmetry
INVARIANTS TypeOK SlotAccounting WithinLimit SingleWorker NoStrandedRequest QueueOrder
CHECK_DEADLOCK FALSE
VIEW LiveState
