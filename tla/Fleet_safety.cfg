\* Three jobs for one cluster of three instances, on two threads; processes die.
CONSTANTS
    h1 = h1
    h2 = h2
    h3 = h3
    j1 = j1
    j2 = j2
    j3 = j3
    t1 = t1
    t2 = t2
    v1 = v1
    v2 = v2
    NoJob = NoJob
    NoVersion = NoVersion
    Version = {v1}
    VersionOf <- OneVersion
    Job = {j1, j2, j3}
    Thread = {t1, t2}
    Host = {h1, h2, h3}
    Cluster <- OneCluster
    Concurrency <- TwoHalfBad
    Faults = {"publish", "compute", "break", "daemon"}
SYMMETRY Symmetry
SPECIFICATION Spec
INVARIANTS
    TypeOK
    RollingDeploy
    WorkedOnOnce
PROPERTIES
    NoJobIsLost
    ImplementsRollout
