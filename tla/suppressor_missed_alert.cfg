SPECIFICATION Spec
CONSTANTS
    Services = {s1, s2, s3}
    Workers = {w1, w2}
    NoService = NoService
    NoWorker = NoWorker
    Cooldown = 4
    StormWindow = 2
    StormThreshold = 1
    StormCooldown = 2
    MayClear = FALSE
    MaxFaults = 0
    MaxTime = 1
SYMMETRY Interchangeable
INVARIANT EveryServiceNamed
