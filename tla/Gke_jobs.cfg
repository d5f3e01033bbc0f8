\* Two jobs for one Deployment of two replicas, on two threads: the version that runs is
\* deployed again, or another one is; every call may fail and the worker may die.
CONSTANTS
    j1 = j1
    j2 = j2
    v1 = v1
    v2 = v2
    p1 = p1
    p2 = p2
    p3 = p3
    NoJob = NoJob
    Version = {v1, v2}
    VersionOf <- AVersionEach
    Running = v1
    Job = {j1, j2}
    MaxJobThreads = 2
    Pod = {p1, p2, p3}
    Replicas = 2
    Faults = {"bucket", "gzip", "tar", "compile", "generate", "appconfig", "kube", "daemon"}
SPECIFICATION Spec
INVARIANTS
    TypeOK
    WipesItsOwnDir
    IncompleteTouchedNothing
    ImageOfTheLastUpdate
PROPERTIES
    CompleteMeansServed
    EveryGkeJobEnds
\* All jobs may be over before anything was deployed: then nothing is left to happen.
CHECK_DEADLOCK FALSE
