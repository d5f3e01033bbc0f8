\* One thread, two jobs for two instances: requests given up by the worker or by the daemon,
\* jobs that come back, deploys that fail.
CONSTANTS
    h1 = h1
    h2 = h2
    h3 = h3
    j1 = j1
    j2 = j2
    j3 = j3
    t1 = t1
    t2 = t2
    v1 = v1
    v2 = v2
    NoJob = NoJob
    NoVersion = NoVersion
    Version = {v1, v2}
    VersionOf <- AVersionEach
    Job = {j1, j2}
    Thread = {t1}
    Host = {h1, h2}
    Cluster <- GrowingCluster
    Concurrency <- OneAndTwo
    Faults = {"acklost", "stream", "timeout", "deadline", "fail"}
SPECIFICATION FairSpec
INVARIANTS
    WaitsForItsOwn
PROPERTIES
    EveryJobEnds
