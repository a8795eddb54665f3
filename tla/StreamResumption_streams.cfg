CONSTANTS
    NoStream = NoStream
    s1 = s1
    s2 = s2
    Streams <- TwoStreams
    MaxId = 4
    MaxReconnects = 2
    FreshIds = TRUE
SPECIFICATION Spec
SYMMETRY StreamSymmetry
INVARIANTS ResumptionTypeOK StreamsAreLive EndedIsReleased ExitEndsStreams StopIsComplete
PROPERTIES ImplementsStreamLife
VIEW LiveState
CHECK_DEADLOCK FALSE
