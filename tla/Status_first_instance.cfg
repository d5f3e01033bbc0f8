CONSTANTS
    i1 = i1
    i2 = i2
    api = api
    web = web
    east = east
    z1 = z1
    z2 = z2
    r1 = r1
    r2 = r2
    inCloud = inCloud
    inConfig = inConfig
    inPods = inPods
    odd = odd
    n1 = n1
    n2 = n2
    h1 = h1
    h2 = h2
    Instance = {i1, i2}
    Id = {api, web}
    Area = {east}
    Zone = {z1, z2}
    ZonesOf <- TwoZones
    ZoneOf <- OneInEach
    IdsOf <- BothOfApi
    Faults = {}
    MaxDeaths = 0
    Req = {r1}
    Cluster = {inCloud}
    NoCluster = NoCluster
    IdOf <- MCIdOf
    Runtime <- MCRuntime
    Static <- MCStatic
    HostOf <- MCHostOf
    Host = {n1, n2}
    Query <- OneCluster
    ReadTimeoutS = 2
    WriteTimeoutS = 3
SPECIFICATION Spec
INVARIANT ListsAllInstances
