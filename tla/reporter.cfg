SPECIFICATION FairReporterSpec
CONSTANTS
    Services = {s1}
    Reports = {r1, r2, r3, r4, r5, r6}
    NoReport = NoReport
    Callers = {"dispatch"}
    MaxAlerts = 1
    Window = 1
    MaxTime = 2
    Severities = {"P1"}
    OncallChannels = {""}
    OncallAddresses = {""}
    Deployments = {{"slack"}}
    SlackMayFail = FALSE
    DigestsSent = FALSE
    MayRestart = TRUE
    Malformed = Malformed
    Undecodable = Undecodable
    Junk = {Malformed, Undecodable}
    MaxRetries = 2
    MaxEvents = 2
    MaxFaults = 1
    MaxEvictions = 1
    MaxStops = 1
INVARIANTS ReporterTypeOK CommittedIsHandled DuplicatesAreExplained
PROPERTY EveryEventHandled
