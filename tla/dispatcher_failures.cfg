SPECIFICATION Spec
CONSTANTS
    Services = {s1}
    Reports = {r1, r2}
    NoReport = NoReport
    Callers = {"dispatch", "other"}
    MaxAlerts = 1
    Window = 1
    MaxTime = 3
    Severities = {"P1", "P2", "other"}
    OncallChannels = {"", "#incidents"}
    OncallAddresses = {"", "lead@team"}
    Deployments = {{"slack"}, {"pagerduty"}, {"slack", "pagerduty"}}
    SlackMayFail = TRUE
    DigestsSent = TRUE
    MayRestart = TRUE
SYMMETRY Interchangeable
INVARIANTS TypeOK EveryChannelTried QueuedIsKept WindowExact RateBound
PROPERTY QueuedOnlyWhenFull
