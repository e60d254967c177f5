SPECIFICATION Spec
CONSTANTS
    Cluster = {c1}
    Host = {h1}
    Vm = {v1}
    Settings = {s1, s2, s3}
    MaxRequests = 1
    NoCluster = NoCluster
INVARIANT NoStatsIsError
