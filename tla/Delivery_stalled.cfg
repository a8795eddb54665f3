CONSTANTS
    s1 = s1
    s2 = s2
    Streams <- OneStream
    Readers = {}
    RawCap = 1
    QuoteCap = 1
    Others = {}
    Window <- AllFull
    MaxData <- FourData
SPECIFICATION FairSpec
PROPERTIES DropStopsStream
CHECK_DEADLOCK FALSE
