SPECIFICATION Spec
CONSTANTS
    Services = {s1, s2}
    Workers = {w1, w2}
    NoService = NoService
    NoWorker = NoWorker
    Cooldown = 2
    StormWindow = 2
    StormThreshold = 0
    StormCooldown = 1
    MayClear = TRUE
    MaxFaults = 1
    MaxTime = 3
SYMMETRY Interchangeable
INVARIANTS TypeOK OncePerCooldown StormAnnounced NoMissedAlert
PROPERTY KeepsPolicy
