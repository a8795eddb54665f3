CONSTANTS
    s1 = s1
    s2 = s2
    Streams <- TwoStreams
    Readers = {s2}
    RawCap = 1
    QuoteCap = 1
    Others = {3}
    Window <- FitsForLeaver
    MaxData <- FewerForLeaver
SPECIFICATION FairSpec
INVARIANTS DeliveryTypeOK NoneMeansReleased
PROPERTIES ImplementsFifo StopEnds PriceReturns RecvEnds CloseEnds
CHECK_DEADLOCK FALSE
