\* One job, one instance at a time; the worker gives a request up (GCEDeployTimeoutS)
\* before its daemon is done with the deploy.
CONSTANTS
    h1 = h1
    h2 = h2
    h3 = h3
    j1 = j1
    j2 = j2
    j3 = j3
    t1 = t1
    t2 = t2
    v1 = v1
    v2 = v2
    NoJob = NoJob
    NoVersion = NoVersion
    Version = {v1, v2}
    VersionOf <- AVersionEach
    Job = {j1}
    Thread = {t1}
    Host = {h1, h2}
    Cluster <- OneCluster
    Concurrency <- OneAndTwo
    Faults = {"timeout"}
SPECIFICATION Spec
INVARIANTS
    RollingDeploy
