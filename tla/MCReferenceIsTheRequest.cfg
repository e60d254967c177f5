SPECIFICATION Spec
CONSTANTS
    h1 = h1
    h2 = h2
    h3 = h3
    h4 = h4
    Reads <- MCReads
    StaleAfter = 2
    SkewTolerance = 1
    Skew = 0
    StartTime = 4
    MaxTime = 5
    NoSample = NoSample
    NoTimestamp = NoTimestamp
    NoRead = NoRead
INVARIANT ReferenceIsTheRequest
