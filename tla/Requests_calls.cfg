CONSTANTS
    NoLimit = NoLimit
    NoCaller = NoCaller
    c1 = c1
    c2 = c2
    AttemptCap = 2
    ChannelCap = 1
    Callers <- TwoCallers
    MaxReconnectAttempts = 1
    SilentPhases <- Phase
    MaxResume = 2
    IdCap = 3
SPECIFICATION FairRequestsSpec
INVARIANTS RequestsTypeOK OwnAnswer CallAccounted IdsOnWireDistinct
PROPERTIES ImplementsCallService 
CHECK_DEADLOCK FALSE
