SPECIFICATION Spec
CONSTANTS
    Hosts <- MCHosts
    VmsOf <- MCVmsOf
    Stored <- MCStored
    Samples <- MCSamples
    Default <- MCDefault
    Settings <- MCSettings
    NaN = NaN
    Text = Text
    NoData = NoData
    MaxLost = 3
INVARIANTS
    ClusterIsItsWorstHost
    VmAsBigAsHostIsMonster
    PooledPercentileIsBetween
PROPERTY
    LosingNeverRaises
CHECK_DEADLOCK FALSE
