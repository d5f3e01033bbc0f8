\* One app, two versions that parse to the same number, two concurrent requests, a
\* configuration may fail, or lack files without an error.
CONSTANTS
    a1 = a1
    a2 = a2
    v1 = v1
    v2 = v2
    r1 = r1
    r2 = r2
    App = {a1}
    Version = {v1, v2}
    NoVersion = NoVersion
    Faults = {"config", "mixed"}
    VersionNumber = {v1}
    Unparsable = Unparsable
    Parsed <- BothSame
    Req = {r1, r2}
    AppOf <- OneApp
    PollS = 1
    StatusPeriodS = 1
    ConvergeTimeoutS = 1
    DeployIntervalS = 1
    MaxBatchS = 1
    StaleDeployCompletedS = 2
    StaleDeployRequestedS = 5
SYMMETRY SlotSymmetry
SPECIFICATION Spec
INVARIANTS
    TypeOK
    OwnEntry
    NoOrphans
    AnswerIsTrue
    IInv
PROPERTIES
    ImplementsSlot
