SPECIFICATION FairSpec
CONSTANTS
    Services = {s1}
    Unknown = Unknown
    Unreadable = Unreadable
    Unparsed = Unparsed
    WindowSize = 3
    OutOfOrder = 1
    Lateness = 1
    BufferSize = 2
    MayRefuse = TRUE
    Stamps = {0, 4, 5}
    Traffic <- SmallTraffic
    MaxRecords = 3
    MaxCrashes = 1
INVARIANTS TypeOK NothingSkipped IndexKeepsCheckpoint
PROPERTY EmittedIsSettled
