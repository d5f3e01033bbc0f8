\* Two apps in one batch, one version; apt and systemd may fail, services may exit and the
\* daemon may die.
CONSTANTS
    a1 = a1
    a2 = a2
    v1 = v1
    v2 = v2
    r1 = r1
    r2 = r2
    App = {a1, a2}
    Version = {v1}
    NoVersion = NoVersion
    Faults = {"apt", "systemd", "crash", "exit"}
    VersionNumber = {v1}
    Unparsable = Unparsable
    Parsed <- NoneParsable
    Req = {r1, r2}
    AppOf <- TwoApps
    PollS = 1
    StatusPeriodS = 1
    ConvergeTimeoutS = 1
    DeployIntervalS = 1
    MaxBatchS = 1
    StaleDeployCompletedS = 2
    StaleDeployRequestedS = 5
SYMMETRY AppSymmetry
SPECIFICATION Spec
INVARIANTS
    BatchIsCache
    OutOfRotationCoversBatch
    SlotFreesInTime
    IInv
