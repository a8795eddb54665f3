CONSTANTS
    PingInterval = 6
    PongTimeout = 4
    RoundTrip = 3
    MaxDelay = 1
    Horizon = 15
SPECIFICATION FairKeepaliveSpec
INVARIANTS KeepaliveTypeOK DeadPeerNoticed NoFalseTimeout
PROPERTIES DeadPeerTimesOut
CHECK_DEADLOCK FALSE
