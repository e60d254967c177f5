SPECIFICATION Spec
CONSTANTS
    Cluster = {c1, c2}
    Host = {h1, h2}
    Vm = {v1}
    Settings = {s1}
    MaxRequests = 1
    NoCluster = NoCluster
SYMMETRY Symmetry
INVARIANTS
    TypeOK
    FailuresAreClusterCalls
    HealthyMeansComplete
    FailureIsIsolated
    TotalFailureIsError
    FailuresAreCounted
