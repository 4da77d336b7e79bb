SPECIFICATION Spec
CONSTANTS
    Replicas = {w1, w2}
    Metrics = {m1}
    NoMetric = NoMetric
    ColdStart = 1
    KeyLife = 2
    SampleLife = 1
    RetrainAfter = 1
    MinSamples = 1
    MaxWindows = 3
    MaxTime = 2
    MaxAborts = 1
SYMMETRY Symmetry
INVARIANTS TypeOK ColdStartHolds CountIsExact NothingLostAlone HashOutlivesSamples StampedIsStored
CHECK_DEADLOCK FALSE
