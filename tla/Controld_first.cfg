\* An app the host does not have yet.
CONSTANTS
    a1 = a1
    a2 = a2
    v1 = v1
    v2 = v2
    r1 = r1
    r2 = r2
    App = {a1}
    Version = {v1}
    NoVersion = NoVersion
    Faults = {}
    VersionNumber = {v1}
    Unparsable = Unparsable
    Parsed <- Distinct
    Req = {r1}
    AppOf <- OneApp
    PollS = 1
    StatusPeriodS = 2
    ConvergeTimeoutS = 1
    DeployIntervalS = 2
    MaxBatchS = 1
    StaleDeployCompletedS = 2
    StaleDeployRequestedS = 6
SPECIFICATION Spec
PROPERTIES
    ConvergeIsAnswered
