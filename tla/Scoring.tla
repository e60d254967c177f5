-------------------------------- MODULE Scoring --------------------------------
(***************************************************************************)
(* scoring.compute_composite() for one object, collection after            *)
(* collection: the loop over its sub-metrics, one step each, and the       *)
(* composite made of what the loop gathered.  Between collections one      *)
(* sub-metric takes another value, or loses or regains its data.           *)
(*                                                                         *)
(* Weights are in quarters and scores in tenths of a point, so that the    *)
(* formula is exact; only the final rounding is left, to the nearest tenth.*)
(***************************************************************************)
EXTENDS Integers, FiniteSets

CONSTANTS
    Metric,             \* the keys of metric_values
    Value,              \* the values a sub-metric takes
    NoData,             \* None
    BandBounds,         \* band_bounds: the bounds of the keys that have them
    Weights,            \* weights, in quarters
    ExcludedWhenGreen   \* excluded_when_green

Bounds == [green_max : Nat, yellow_max : Nat, orange_max : Nat]
Scored == DOMAIN BandBounds

ASSUME MetricAssumption == IsFiniteSet(Metric) /\ Value \subseteq Nat /\ NoData \notin Nat
ASSUME TableAssumption ==
    /\ Scored \subseteq Metric /\ BandBounds \in [Scored -> Bounds]
    /\ \A m \in Scored : /\ BandBounds[m].green_max <= BandBounds[m].yellow_max
                         /\ BandBounds[m].yellow_max <= BandBounds[m].orange_max
    /\ Weights \in [Scored -> Nat \ {0}]
    /\ ExcludedWhenGreen \subseteq Metric

VARIABLES
    metric_values,      \* the values being scored
    todo,               \* the keys the loop has not reached
    per_metric_band,    \* the band of each key reached, "none" elsewhere
    weighted_scores,    \* the sum of the list the code keeps
    total_weight,
    composite,          \* what is returned: [score, band]
    before              \* history: the values and the result of the collection before

loop == <<todo, per_metric_band, weighted_scores, total_weight>>
vars == <<metric_values, loop, composite, before>>

Bands == {"green", "yellow", "orange", "red"}
BAND_FLOORS == [green |-> 0, yellow |-> 60, orange |-> 80, red |-> 90, unknown |-> 0]

classify_band(m, value) ==
    IF value = NoData THEN "unknown"
    ELSE IF value <= BandBounds[m].green_max THEN "green"
    ELSE IF value <= BandBounds[m].yellow_max THEN "yellow"
    ELSE IF value <= BandBounds[m].orange_max THEN "orange"
    ELSE "red"

--------------------------------------------------------------------------------
Readings == [Metric -> Value \cup {NoData}]
NotScored == [score |-> 0, band |-> "none"]

Start ==
    /\ todo = Metric
    /\ per_metric_band = [m \in Scored |-> "none"]
    /\ weighted_scores = 0 /\ total_weight = 0
    /\ composite = NotScored

Init ==
    /\ metric_values \in Readings
    /\ Start
    /\ before = [values |-> metric_values, composite |-> NotScored]

\* Mutant: a green metric that is left out of the average loses its band too.
ScoreMetricWithoutBand(m) ==
    /\ m \in todo
    /\ todo' = todo \ {m}
    /\ LET band == IF m \in Scored THEN classify_band(m, metric_values[m]) ELSE "unknown" IN
       IF band = "unknown" \/ (band = "green" /\ m \in ExcludedWhenGreen)
       THEN UNCHANGED <<per_metric_band, weighted_scores, total_weight>>
       ELSE /\ per_metric_band' = [per_metric_band EXCEPT ![m] = band]
            /\ weighted_scores' = weighted_scores + BAND_FLOORS[band] * Weights[m]
            /\ total_weight' = total_weight + Weights[m]
    /\ UNCHANGED <<metric_values, composite, before>>

\* One pass of the loop.
ScoreMetric(m) ==
    /\ m \in todo
    /\ todo' = todo \ {m}
    /\ IF m \notin Scored
       THEN UNCHANGED <<per_metric_band, weighted_scores, total_weight>>
       ELSE LET band == classify_band(m, metric_values[m]) IN
            /\ per_metric_band' = [per_metric_band EXCEPT ![m] = band]
            /\ IF band = "unknown" \/ (band = "green" /\ m \in ExcludedWhenGreen)
               THEN UNCHANGED <<weighted_scores, total_weight>>
               ELSE /\ weighted_scores' = weighted_scores + BAND_FLOORS[band] * Weights[m]
                    /\ total_weight' = total_weight + Weights[m]
    /\ UNCHANGED <<metric_values, composite, before>>

known_bands == {per_metric_band[m] : m \in Scored} \cap Bands
worst_band == CHOOSE b \in known_bands :
                  \A other \in known_bands : BAND_FLOORS[other] <= BAND_FLOORS[b]

\* n / d to the nearest integer.
Nearest(n, d) == (2 * n + d) \div (2 * d)

\* Mutant: 70% on the average, 30% on the worst.
ScoreMostlyAverage(worst_floor) ==
    IF total_weight = 0 THEN 3 * worst_floor
    ELSE Nearest(3 * worst_floor * total_weight + 7 * weighted_scores, total_weight)

\* 0.7 * worst_floor + 0.3 * weighted_avg, in tenths.
Score(worst_floor) ==
    IF total_weight = 0 THEN 7 * worst_floor
    ELSE Nearest(7 * worst_floor * total_weight + 3 * weighted_scores, total_weight)

\* Mutant: no score when nothing is known.
CompositeWithoutScore ==
    /\ todo = {} /\ composite = NotScored
    /\ composite' = IF known_bands = {} THEN [score |-> NoData, band |-> "unknown"]
                    ELSE [score |-> Score(BAND_FLOORS[worst_band]), band |-> worst_band]
    /\ UNCHANGED <<metric_values, loop, before>>

Composite ==
    /\ todo = {} /\ composite = NotScored
    /\ composite' = IF known_bands = {} THEN [score |-> 0, band |-> "unknown"]
                    ELSE [score |-> Score(BAND_FLOORS[worst_band]), band |-> worst_band]
    /\ UNCHANGED <<metric_values, loop, before>>

\* metrics_in_worst_band()
metrics_in_worst_band == Cardinality({m \in Scored : per_metric_band[m] = composite.band})

\* Mutant: the weights of the collection before are kept.
RecollectKeepsWeight ==
    /\ composite # NotScored
    /\ \E m \in Metric, v \in Value \cup {NoData} :
        metric_values' = [metric_values EXCEPT ![m] = v]
    /\ before' = [values |-> metric_values, composite |-> composite]
    /\ todo' = Metric
    /\ per_metric_band' = [m \in Scored |-> "none"]
    /\ weighted_scores' = 0 /\ UNCHANGED total_weight
    /\ composite' = NotScored

\* The next collection reads another value for one sub-metric.
Recollect ==
    /\ composite # NotScored
    /\ \E m \in Metric, v \in Value \cup {NoData} :
        metric_values' = [metric_values EXCEPT ![m] = v]
    /\ before' = [values |-> metric_values, composite |-> composite]
    /\ todo' = Metric
    /\ per_metric_band' = [m \in Scored |-> "none"]
    /\ weighted_scores' = 0 /\ total_weight' = 0
    /\ composite' = NotScored

Next == (\E m \in Metric : ScoreMetric(m)) \/ Composite \/ Recollect

Spec == Init /\ [][Next]_vars

--------------------------------------------------------------------------------
TypeOK ==
    /\ metric_values \in Readings
    /\ todo \subseteq Metric
    /\ per_metric_band \in [Scored -> Bands \cup {"unknown", "none"}]
    /\ weighted_scores \in Nat /\ total_weight \in Nat
    /\ composite \in [score : Nat, band : Bands \cup {"unknown", "none"}]
    /\ before \in [values : Readings,
                   composite : [score : Nat, band : Bands \cup {"unknown", "none"}]]

BandOf(m) == classify_band(m, metric_values[m])

(* One red sub-metric makes the object red however many are green, no       *)
(* sub-metric is worse than the composite band, and it is "unknown" exactly *)
(* when no sub-metric is known: broken collection is never a false green.   *)
BandIsWorstKnown ==
    composite # NotScored =>
        /\ composite.band = "unknown" <=> \A m \in Scored : BandOf(m) = "unknown"
        /\ composite.band # "unknown" =>
            /\ metrics_in_worst_band > 0
            /\ \A m \in Scored : BAND_FLOORS[BandOf(m)] <= BAND_FLOORS[composite.band]

(* METRICS.md, composite 6: green scores 0, yellow 42-60, orange 56-80 and  *)
(* red 63-90, whatever else the object's sub-metrics are, their weights and *)
(* which of them are left out while green.                                  *)
ScoreWithinBand ==
    composite # NotScored =>
        /\ composite.score >= 7 * BAND_FLOORS[composite.band]
        /\ composite.score <= 10 * BAND_FLOORS[composite.band]

\* Since the collection before, m got worse and nothing else changed.
Worse(m) ==
    /\ composite # NotScored /\ before.composite # NotScored
    /\ metric_values = [before.values EXCEPT ![m] = metric_values[m]]
    /\ NoData \notin {metric_values[m], before.values[m]}
    /\ metric_values[m] > before.values[m]

(* A known sub-metric that gets worse never improves the band, and never    *)
(* lowers the score unless it leaves the green in which it was left out.    *)
WorseIsNeverBetter ==
    \A m \in Scored : Worse(m) =>
        /\ BAND_FLOORS[composite.band] >= BAND_FLOORS[before.composite.band]
        /\ \/ composite.score >= before.composite.score
           \/ m \in ExcludedWhenGreen /\ before.values[m] <= BandBounds[m].green_max

(* METRICS.md, "Known limitation": a known sub-metric getting worse only    *)
(* ever adds to the average.  One that is excluded while green enters the   *)
(* average when it turns yellow, and lowers it when the rest is worse.      *)
WorseNeverLowersScore ==
    \A m \in Scored : Worse(m) => composite.score >= before.composite.score
================================================================================
