CONSTANTS
    NoLimit = NoLimit
    MaxReconnectAttempts = NoLimit
    AttemptCap = 3
    SilentPhases <- Phase
    Width = 12
    InitialBackoff = 100
    MaxBackoff = 3000
SPECIFICATION FairLoopSpec
PROPERTIES ShutdownEndsTask
CHECK_DEADLOCK FALSE
