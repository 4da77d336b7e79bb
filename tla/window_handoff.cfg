SPECIFICATION FairLoopSpec
CONSTANTS
    Latencies <- Durations
    NoLatency = NoLatency
    Messages = {1, 2, 3}
    Blank = Blank
    MaxSamples = 3
    MaxMessages = 2
    TopErrorsK = 1
    MaxStream = 5
    Traffic <- PlainTraffic
    TypeField = "RECORD_TYPE"
    NoOffset = NoOffset
    MaxRecords = 4
    MaxFaults = 1
INVARIANTS HandoffTypeOK CommittedIsLookedAt RepeatsAreExplained NoEventLostAlone LatenciesAreTrue TopErrorsAreTrue
PROPERTY EveryWindowLookedAt
