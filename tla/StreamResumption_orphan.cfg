CONSTANTS
    NoStream = NoStream
    s1 = s1
    s2 = s2
    Streams <- OneStream
    MaxId = 2
    MaxReconnects = 1
    FreshIds = TRUE
SPECIFICATION Spec
INVARIANTS StoppedAtServer
CHECK_DEADLOCK FALSE
