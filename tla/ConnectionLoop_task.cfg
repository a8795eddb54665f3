CONSTANTS
    NoLimit = NoLimit
    MaxReconnectAttempts = 7
    AttemptCap = 8
    SilentPhases <- AllButResuming
    Width = 12
    InitialBackoff = 100
    MaxBackoff = 3000
SPECIFICATION FairLoopSpec
INVARIANTS LoopTypeOK AttemptsCounted GivesUpAtLimit PublishedState WaitMissesNothing BackoffDoubles
PROPERTIES ShutdownEndsTask
CHECK_DEADLOCK FALSE
