SPECIFICATION Spec
CONSTANTS
    h1 = h1
    h2 = h2
    h3 = h3
    h4 = h4
    Reads <- MCReads
    StaleAfter = 2
    SkewTolerance = 2
    Skew <- MCSkew
    StartTime = 4
    MaxTime = 5
    NoSample = NoSample
    NoTimestamp = NoTimestamp
    NoRead = NoRead
SYMMETRY MCSymmetry
INVARIANTS
    CurrentSampleIsUsed
    TypeOK
    NeverLastKnownValue
    OlderIsDroppedFirst
    EverySampleIsJudgedOnce
