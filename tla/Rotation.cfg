\* One app, requests one after the other, time passes, timely; a restarted service may come up
\* late or not at all, a package listing may be cut short, the daemon may die.
CONSTANTS
    a1 = a1
    a2 = a2
    v1 = v1
    v2 = v2
    r1 = r1
    r2 = r2
    App = {a1}
    Version = {v1}
    NoVersion = NoVersion
    Faults = {"start", "list"}
    VersionNumber = {v1}
    Unparsable = Unparsable
    Parsed <- Distinct
    Req = {r1}
    AppOf <- OneApp
    Monitored = {a1}
    PollS = 1
    StatusPeriodS = 1
    ConvergeTimeoutS = 1
    DeployIntervalS = 1
    MaxBatchS = 1
    StaleDeployCompletedS = 2
    StaleDeployRequestedS = 5
SPECIFICATION FairRotation
INVARIANTS
    HealthInv
    UpIsRecent
    DownIsRecent
    MarkersAreAccountedFor
PROPERTIES
    DeployReturns
