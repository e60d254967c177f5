SPECIFICATION Spec
CONSTANTS
    Metric <- MCMetric
    Value <- MCValue
    NoData = NoData
    BandBounds <- MCBandBounds
    Weights <- MCWeights
    ExcludedWhenGreen <- MCExcluded
INVARIANTS
    TypeOK
    BandIsWorstKnown
    ScoreWithinBand
    WorseIsNeverBetter
