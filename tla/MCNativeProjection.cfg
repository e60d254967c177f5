SPECIFICATION FairSpec
CONSTANTS
    c1 = c1
    c2 = c2
    c3 = c3
    Resource = {c1, c2, c3}
    Inventories <- MCInventories
    PageSize = 1
    Host = {h1}
    Keyless = {h1}
    Key = {"cpu", "memory"}
    Readings <- MCReadings
    BandOf <- MCBandOf
    MaxChanges = 1
    MaxCycles = 2
    NoData = NoData
INVARIANTS
    TypeOK
    QuietQueryIsExact
    PresentIsListed
    ListedOnce
    ReadingIsWhole
    WrittenTwiceOnlyIfChanged
    HealthyMeansUpdated
    FirstWarningIsCurrent
PROPERTY
    CollectionEnds
