SPECIFICATION FairSpec
CONSTANTS
    Cluster = {c1}
    Host = {h1, h2}
    Vm = {v1}
    Settings = {s1}
    MaxRequests = 2
    NoCluster = NoCluster
INVARIANTS
    FailuresAreClusterCalls
    TotalFailureIsError
PROPERTIES
    ImplementsContract
    CycleEnds
