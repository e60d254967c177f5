----------------------------- MODULE ScoringProofs -----------------------------
(***************************************************************************)
(* Proofs about Scoring for any sub-metrics, bounds and weights.           *)
(***************************************************************************)
EXTENDS Scoring, FiniteSums, FiniteSetTheorems, TLAPS

Floors == {0, 60, 80, 90}

\* A sub-metric's band is one of five, with its floor.
LEMMA ClassifyFacts ==
    ASSUME NEW m \in Scored, NEW v
    PROVE  /\ classify_band(m, v) \in Bands \cup {"unknown"}
           /\ BAND_FLOORS[classify_band(m, v)] \in Floors
BY DEF classify_band, Bands, BAND_FLOORS, Floors

\* A whole number between two bounds is not rounded past them.
LEMMA NearestBounds ==
    ASSUME NEW n \in Nat, NEW d \in Nat \ {0}, NEW low \in Nat, NEW high \in Nat,
           low * d <= n, n <= high * d
    PROVE  Nearest(n, d) \in Nat /\ low <= Nearest(n, d) /\ Nearest(n, d) <= high
<1> DEFINE q == (2 * n + d) \div (2 * d)
<1>1. q \in Int /\ 2 * d * q <= 2 * n + d /\ 2 * n + d < 2 * d * (q + 1)
  OBVIOUS
<1>2. low <= q
  <2> SUFFICES ASSUME q + 1 <= low PROVE FALSE
    BY <1>1
  <2>1. 2 * d * (q + 1) <= 2 * d * low
    BY <1>1
  <2> QED  BY <1>1, <2>1
<1>3. q <= high
  <2> SUFFICES ASSUME high + 1 <= q PROVE FALSE
    BY <1>1
  <2>1. 2 * d * (high + 1) <= 2 * d * q
    BY <1>1
  <2> QED  BY <1>1, <2>1
<1> QED  BY <1>1, <1>2, <1>3 DEF Nearest

\* 70% of a floor and 30% of an average it bounds lie within 70% and 100% of it.
LEMMA WeightedSum ==
    ASSUME NEW F \in Floors, NEW w \in Nat, NEW s \in Nat, s <= F * w
    PROVE  LET n == 7 * F * w + 3 * s
           IN  /\ n \in Nat /\ 7 * F \in Nat /\ 10 * F \in Nat
               /\ (7 * F) * w <= n /\ n <= (10 * F) * w
<1>1. CASE F = 0  BY <1>1
<1>2. CASE F = 60  BY <1>2
<1>3. CASE F = 80  BY <1>3
<1>4. CASE F = 90  BY <1>4
<1> QED  BY <1>1, <1>2, <1>3, <1>4 DEF Floors

--------------------------------------------------------------------------------
(***************************************************************************)
(* The loop.  The weighted average of floors never exceeds a floor that    *)
(* bounds the bands gathered so far; the reached keys hold their own bands *)
(* and the others none.  A composite, once made, is what the properties    *)
(* say until the next collection.                                          *)
(***************************************************************************)
Loop ==
    /\ \A m \in Scored : per_metric_band[m] = IF m \in todo THEN "none" ELSE BandOf(m)
    /\ \A F \in Floors : (\A m \in Scored \ todo : BAND_FLOORS[BandOf(m)] <= F)
                            => weighted_scores <= F * total_weight
    /\ composite # NotScored => todo = {}

Inv == TypeOK /\ Loop /\ BandIsWorstKnown /\ ScoreWithinBand

\* Nothing has been scored.
LEMMA InitInv == Init => Inv
<1> SUFFICES ASSUME Init PROVE Inv
  OBVIOUS
<1>1. TypeOK  BY DEF Init, Start, TypeOK, NotScored, Bands
<1>2. Loop  BY TableAssumption DEF Init, Start, Loop, Floors
<1>3. BandIsWorstKnown /\ ScoreWithinBand
  BY DEF Init, Start, BandIsWorstKnown, ScoreWithinBand
<1> QED  BY <1>1, <1>2, <1>3 DEF Inv

\* One pass of the loop.
LEMMA ScoreMetricInv == ASSUME Inv, NEW m \in Metric, ScoreMetric(m) PROVE Inv'
<1> DEFINE band == classify_band(m, metric_values[m])
<1>0. /\ m \in todo /\ todo' = todo \ {m} /\ composite = NotScored
      /\ metric_values' = metric_values /\ composite' = composite /\ before' = before
  BY DEF Inv, Loop, ScoreMetric
<1>1. BandIsWorstKnown' /\ ScoreWithinBand'
  BY <1>0 DEF BandIsWorstKnown, ScoreWithinBand, NotScored
<1>2. CASE m \notin Scored
  BY <1>0, <1>1, <1>2 DEF Inv, TypeOK, Loop, ScoreMetric, BandOf
<1>3. CASE m \in Scored
  <2>1. band \in Bands \cup {"unknown"} /\ BAND_FLOORS[band] \in Floors
    BY <1>3, ClassifyFacts
  <2>2. Weights[m] \in Nat \ {0}  BY <1>3, TableAssumption
  <2>3. per_metric_band' = [per_metric_band EXCEPT ![m] = band]
    BY <1>3 DEF ScoreMetric
  <2>4. \/ weighted_scores' = weighted_scores /\ total_weight' = total_weight
        \/ /\ weighted_scores' = weighted_scores + BAND_FLOORS[band] * Weights[m]
           /\ total_weight' = total_weight + Weights[m]
    BY <1>3 DEF ScoreMetric
  <2>5. TypeOK'
    <3>1. weighted_scores' \in Nat /\ total_weight' \in Nat
      BY <2>1, <2>2, <2>4 DEF Inv, TypeOK, Floors
    <3> QED  BY <1>0, <2>1, <2>3, <3>1 DEF Inv, TypeOK
  <2>6. \A k \in Scored : per_metric_band'[k] = IF k \in todo' THEN "none" ELSE BandOf(k)'
    BY <1>0, <2>3 DEF Inv, TypeOK, Loop, BandOf
  <2>7. ASSUME NEW F \in Floors, \A k \in Scored \ todo' : BAND_FLOORS[BandOf(k)'] <= F
        PROVE  weighted_scores' <= F * total_weight'
    <3>1. weighted_scores <= F * total_weight  BY <1>0, <2>7 DEF Inv, Loop, BandOf
    <3>2. BAND_FLOORS[band] <= F  BY <1>0, <1>3, <2>7 DEF BandOf
    <3>3. BAND_FLOORS[band] * Weights[m] <= F * Weights[m]
      BY <2>1, <2>2, <3>2 DEF Floors
    <3>4. F * (total_weight + Weights[m]) = F * total_weight + F * Weights[m]
      BY <2>2 DEF Inv, TypeOK, Floors
    <3> QED  BY <2>1, <2>2, <2>4, <3>1, <3>3, <3>4 DEF Inv, TypeOK, Floors
  <2> QED  BY <1>0, <1>1, <2>5, <2>6, <2>7 DEF Inv, Loop
<1> QED  BY <1>2, <1>3

\* The composite of what the loop has gathered.
LEMMA CompositeInv == ASSUME Inv, Composite PROVE Inv'
<1>0. /\ todo = {} /\ todo' = todo /\ metric_values' = metric_values /\ before' = before
      /\ per_metric_band' = per_metric_band
      /\ weighted_scores' = weighted_scores /\ total_weight' = total_weight
  BY DEF Composite, loop
<1>1. \A m \in Scored : per_metric_band[m] = BandOf(m)  BY <1>0 DEF Inv, Loop
<1>2. \A m \in Scored : BandOf(m) \in Bands \cup {"unknown"} /\ BAND_FLOORS[BandOf(m)] \in Floors
  BY ClassifyFacts DEF BandOf
<1>3. Loop'  BY <1>0 DEF Inv, Loop, BandOf
<1>4. \A m \in Scored : BandOf(m)' = BandOf(m)  BY <1>0 DEF BandOf
<1>5. CASE known_bands = {}
  <2>1. composite' = [score |-> 0, band |-> "unknown"]  BY <1>5 DEF Composite
  <2>2. \A m \in Scored : BandOf(m) = "unknown"  BY <1>1, <1>2, <1>5 DEF known_bands
  <2>3. TypeOK'  BY <1>0, <2>1 DEF Inv, TypeOK
  <2>4. BandIsWorstKnown'  BY <1>4, <2>1, <2>2 DEF BandIsWorstKnown
  <2>5. ScoreWithinBand'  BY <2>1 DEF ScoreWithinBand, BAND_FLOORS
  <2> QED  BY <1>3, <2>3, <2>4, <2>5 DEF Inv
<1>6. CASE known_bands # {}
  <2>1. /\ worst_band \in known_bands
        /\ \A other \in known_bands : BAND_FLOORS[other] <= BAND_FLOORS[worst_band]
    <3>1. \E b \in known_bands : \A other \in known_bands : BAND_FLOORS[other] <= BAND_FLOORS[b]
      BY <1>6 DEF known_bands, Bands, BAND_FLOORS
    <3> QED  BY <3>1 DEF worst_band
  <2> DEFINE F == BAND_FLOORS[worst_band]
  <2>2. worst_band \in Bands /\ F \in Floors  BY <2>1 DEF known_bands, Bands, BAND_FLOORS, Floors
  <2>3. \A m \in Scored : BAND_FLOORS[BandOf(m)] <= F
    BY <1>1, <1>2, <2>1, <2>2 DEF known_bands, BAND_FLOORS, Floors
  <2>4. composite' = [score |-> Score(F), band |-> worst_band]  BY <1>6 DEF Composite
  <2>5. Score(F) \in Nat /\ 7 * F <= Score(F) /\ Score(F) <= 10 * F
    <3>1. CASE total_weight = 0  BY <2>2, <3>1 DEF Score, Floors
    <3>2. CASE total_weight # 0
      <4> DEFINE n == 7 * F * total_weight + 3 * weighted_scores
      <4>1. weighted_scores <= F * total_weight  BY <1>0, <2>2, <2>3 DEF Inv, Loop
      <4>2. /\ n \in Nat /\ total_weight \in Nat \ {0} /\ 7 * F \in Nat /\ 10 * F \in Nat
            /\ (7 * F) * total_weight <= n /\ n <= (10 * F) * total_weight
        BY <2>2, <3>2, <4>1, WeightedSum DEF Inv, TypeOK
      <4>3. Nearest(n, total_weight) \in Nat /\ 7 * F <= Nearest(n, total_weight)
            /\ Nearest(n, total_weight) <= 10 * F
        BY <4>2, NearestBounds
      <4> QED  BY <3>2, <4>3 DEF Score
    <3> QED  BY <3>1, <3>2
  <2>6. TypeOK'  BY <1>0, <2>2, <2>4, <2>5 DEF Inv, TypeOK
  <2>7. PICK m \in Scored : BandOf(m) = worst_band  BY <1>1, <2>1 DEF known_bands
  <2>8. metrics_in_worst_band' > 0
    <3> DEFINE inWorst == {k \in Scored : per_metric_band'[k] = composite'.band}
    <3>1. IsFiniteSet(inWorst)  BY MetricAssumption, TableAssumption, FS_Subset
    <3>2. m \in inWorst  BY <1>0, <1>1, <2>4, <2>7
    <3>3. Cardinality(inWorst) > 0  BY <3>1, <3>2, FS_EmptySet, FS_CardinalityType
    <3> QED  BY <3>3 DEF metrics_in_worst_band
  <2>9. BandIsWorstKnown'
    BY <1>4, <2>2, <2>3, <2>4, <2>7, <2>8 DEF BandIsWorstKnown, Bands
  <2>10. ScoreWithinBand'  BY <2>4, <2>5 DEF ScoreWithinBand
  <2> QED  BY <1>3, <2>6, <2>9, <2>10 DEF Inv
<1> QED  BY <1>5, <1>6

\* The next collection starts over.
LEMMA RecollectInv == ASSUME Inv, Recollect PROVE Inv'
<1>1. TypeOK'  BY DEF Recollect, Inv, TypeOK, Readings, NotScored
<1>2. Loop'  BY TableAssumption DEF Recollect, Inv, Loop, Floors
<1>3. BandIsWorstKnown' /\ ScoreWithinBand'
  BY DEF Recollect, BandIsWorstKnown, ScoreWithinBand, NotScored
<1> QED  BY <1>1, <1>2, <1>3 DEF Inv

\* Every step keeps the invariant.
LEMMA Invariance == Spec => []Inv
<1>1. Inv /\ [Next]_vars => Inv'
  <2> SUFFICES ASSUME Inv, [Next]_vars PROVE Inv'
    OBVIOUS
  <2>1. CASE Next  BY <2>1, ScoreMetricInv, CompositeInv, RecollectInv DEF Next
  <2>2. CASE UNCHANGED vars
    BY <2>2 DEF vars, loop, Inv, TypeOK, Loop, BandIsWorstKnown, ScoreWithinBand, BandOf,
       metrics_in_worst_band
  <2> QED  BY <2>1, <2>2
<1> QED  BY InitInv, <1>1, PTL DEF Spec

(* Types: the score is a natural number and the band a known one or none.   *)
THEOREM TypeCorrect == Spec => []TypeOK
<1>1. Inv => TypeOK  BY DEF Inv
<1> QED  BY Invariance, <1>1, PTL

(* The composite band is the worst known band, for any tables.              *)
THEOREM BandIsWorstKnownAlways == Spec => []BandIsWorstKnown
<1>1. Inv => BandIsWorstKnown  BY DEF Inv
<1> QED  BY Invariance, <1>1, PTL

(* The documented score ranges hold for any number of sub-metrics, any      *)
(* weights and any set of sub-metrics left out while green.                 *)
THEOREM ScoreWithinBandAlways == Spec => []ScoreWithinBand
<1>1. Inv => ScoreWithinBand  BY DEF Inv
<1> QED  BY Invariance, <1>1, PTL

--------------------------------------------------------------------------------
(***************************************************************************)
(* Two collections compared.  The sums of the loop are those of the keys   *)
(* that count among the ones reached, and both results, the one made and   *)
(* the one of the collection before, are what their own values come to.    *)
(***************************************************************************)
Band(values, k) == classify_band(k, values[k])
Counted(values) ==
    {k \in Scored : /\ Band(values, k) # "unknown"
                    /\ Band(values, k) = "green" => k \notin ExcludedWhenGreen}
Points(values) == [k \in Scored |-> BAND_FLOORS[Band(values, k)] * Weights[k]]

ScoreOf(worst_floor, scores, weight) ==
    IF weight = 0 THEN 7 * worst_floor
    ELSE Nearest(7 * worst_floor * weight + 3 * scores, weight)

IsResult(result, values) ==
    result # NotScored =>
        /\ \/ \E k \in Scored : Band(values, k) = result.band /\ result.band \in Bands
           \/ result.band = "unknown"
        /\ \A k \in Scored : BAND_FLOORS[Band(values, k)] <= BAND_FLOORS[result.band]
        /\ result.score = ScoreOf(BAND_FLOORS[result.band],
                                  Total(Points(values), Counted(values)),
                                  Total(Weights, Counted(values)))

SumsSoFar ==
    /\ weighted_scores = Total(Points(metric_values), Counted(metric_values) \ todo)
    /\ total_weight = Total(Weights, Counted(metric_values) \ todo)

TwoResults == /\ SumsSoFar
              /\ IsResult(composite, metric_values) /\ IsResult(before.composite, before.values)

\* What can be added up: any of the keys, with their points or their weights.
LEMMA PointsFacts ==
    ASSUME NEW values, NEW S \in SUBSET Scored
    PROVE  /\ IsFiniteSet(S)
           /\ \A k \in S : Points(values)[k] \in Nat /\ Weights[k] \in Nat \ {0}
           /\ Total(Points(values), S) \in Nat /\ Total(Weights, S) \in Nat
           /\ S = {} => Total(Points(values), S) = 0 /\ Total(Weights, S) = 0
           /\ S # {} => Total(Weights, S) > 0
<1>1. IsFiniteSet(S)
  BY MetricAssumption, TableAssumption, FS_Subset
<1>2. ASSUME NEW k \in S  PROVE Points(values)[k] \in Nat /\ Weights[k] \in Nat \ {0}
  <2>1. BAND_FLOORS[Band(values, k)] \in Floors /\ Weights[k] \in Nat \ {0}
    BY ClassifyFacts, TableAssumption DEF Band
  <2>2. BAND_FLOORS[Band(values, k)] * Weights[k] \in Nat
    BY <2>1 DEF Floors
  <2> QED  BY <2>1, <2>2 DEF Points
<1>3. /\ Total(Points(values), S) \in Nat
      /\ S = {} => Total(Points(values), S) = 0
  BY <1>1, <1>2, TotalFacts
<1>4. /\ Total(Weights, S) \in Nat
      /\ S = {} => Total(Weights, S) = 0
      /\ \A k \in S : Total(Weights, S) = Weights[k] + Total(Weights, S \ {k})
                      /\ Total(Weights, S \ {k}) \in Nat
  BY <1>1, <1>2, TotalFacts
<1>5. ASSUME S # {}  PROVE Total(Weights, S) > 0
  <2>1. PICK k \in S : TRUE
    BY <1>5
  <2>2. Weights[k] \in Nat \ {0} /\ Total(Weights, S \ {k}) \in Nat
    BY <1>2, <1>4
  <2>3. Total(Weights, S) = Weights[k] + Total(Weights, S \ {k})
    BY <1>4
  <2> QED  BY <2>2, <2>3
<1> QED  BY <1>1, <1>2, <1>3, <1>4, <1>5

\* Before the first collection there is no result to compare.
LEMMA TwoResultsInit == Init => TwoResults
<1> SUFFICES ASSUME Init  PROVE TwoResults
  OBVIOUS
<1>1. Counted(metric_values) \ todo = {}
  BY TableAssumption DEF Init, Start, Counted
<1>2. SumsSoFar
  BY <1>1, PointsFacts DEF Init, Start, SumsSoFar
<1> QED  BY <1>2 DEF Init, Start, TwoResults, IsResult

\* One pass of the loop adds the key if it counts.
LEMMA ScoreMetricSums == ASSUME TwoResults, Inv, NEW m \in Metric, ScoreMetric(m)  PROVE TwoResults'
<1> DEFINE C == Counted(metric_values)
           P == Points(metric_values)
           band == classify_band(m, metric_values[m])
<1>1. /\ m \in todo /\ todo' = todo \ {m} /\ composite = NotScored
      /\ metric_values' = metric_values /\ composite' = composite /\ before' = before
  BY DEF Inv, Loop, ScoreMetric
<1>2. CASE m \notin C
  <2>1. C \ todo' = C \ todo
    BY <1>1, <1>2
  <2>2. weighted_scores' = weighted_scores /\ total_weight' = total_weight
    BY <1>2 DEF ScoreMetric, Counted, Band
  <2> QED  BY <1>1, <2>1, <2>2 DEF TwoResults, SumsSoFar, IsResult
<1>3. CASE m \in C
  <2> DEFINE S == C \ todo'
  <2>1. m \in S /\ S \ {m} = C \ todo /\ S \in SUBSET Scored
    BY <1>1, <1>3 DEF Counted
  <2>2. /\ weighted_scores' = weighted_scores + P[m]
        /\ total_weight' = total_weight + Weights[m]
    BY <1>3 DEF ScoreMetric, Counted, Band, Points
  <2> HIDE DEF S, P, C
  <2>3. IsFiniteSet(S) /\ \A k \in S : P[k] \in Nat /\ Weights[k] \in Nat \ {0}
    BY <2>1, PointsFacts DEF P
  <2>4. /\ Total(P, S) = P[m] + Total(P, S \ {m}) /\ Total(P, S \ {m}) \in Nat
        /\ Total(Weights, S) = Weights[m] + Total(Weights, S \ {m}) /\ Total(Weights, S \ {m}) \in Nat
    <3>1. \A k \in S : P[k] \in Nat
      BY <2>3
    <3>2. \A k \in S : Weights[k] \in Nat
      BY <2>3
    <3> QED  BY <2>1, <2>3, <3>1, <3>2, TotalFacts
  <2>5. weighted_scores' = Total(P, S) /\ total_weight' = Total(Weights, S)
    BY <2>1, <2>2, <2>3, <2>4 DEF TwoResults, SumsSoFar, P, C
  <2>6. SumsSoFar'
    BY <1>1, <2>5 DEF SumsSoFar, S, P, C
  <2> QED  BY <1>1, <2>6 DEF TwoResults, IsResult
<1> QED  BY <1>2, <1>3

\* The result is made of the sums of all the keys that count.
LEMMA CompositeSums == ASSUME TwoResults, Inv, Composite, Inv'  PROVE TwoResults'
<1>1. /\ todo = {} /\ UNCHANGED <<metric_values, loop, before>>
  BY DEF Composite
<1>2. /\ weighted_scores = Total(Points(metric_values), Counted(metric_values))
      /\ total_weight = Total(Weights, Counted(metric_values))
  <2>1. Counted(metric_values) \ todo = Counted(metric_values)
    BY <1>1
  <2> QED  BY <2>1 DEF TwoResults, SumsSoFar
<1>3. \A k \in Scored : per_metric_band[k] = Band(metric_values, k)
  BY <1>1 DEF Inv, Loop, BandOf, Band
<1>4. \A k \in Scored : /\ Band(metric_values, k) \in Bands \cup {"unknown"}
                        /\ BAND_FLOORS[Band(metric_values, k)] \in Floors
  BY ClassifyFacts DEF Band
<1>5. IsResult(composite', metric_values)
  <2>1. CASE known_bands = {}
    <3>1. composite' = [score |-> 0, band |-> "unknown"]
      BY <2>1 DEF Composite
    <3>2. \A k \in Scored : Band(metric_values, k) = "unknown"
      BY <1>3, <1>4, <2>1 DEF known_bands
    <3>3. Counted(metric_values) = {}
      BY <3>2 DEF Counted
    <3>4. Total(Weights, Counted(metric_values)) = 0
      BY <3>3, PointsFacts
    <3> QED  BY <3>1, <3>2, <3>4 DEF IsResult, ScoreOf, BAND_FLOORS
  <2>2. CASE known_bands # {}
    <3>1. composite' = [score |-> Score(BAND_FLOORS[worst_band]), band |-> worst_band]
      BY <2>2 DEF Composite
    <3>2. /\ worst_band \in known_bands
          /\ \A other \in known_bands : BAND_FLOORS[other] <= BAND_FLOORS[worst_band]
      <4>1. \E b \in known_bands : \A other \in known_bands : BAND_FLOORS[other] <= BAND_FLOORS[b]
        BY <2>2 DEF known_bands, Bands, BAND_FLOORS
      <4> QED  BY <4>1 DEF worst_band
    <3>3. worst_band \in Bands /\ BAND_FLOORS[worst_band] \in Floors
      BY <3>2 DEF known_bands, Bands, BAND_FLOORS, Floors
    <3>4. \A k \in Scored : BAND_FLOORS[Band(metric_values, k)] <= BAND_FLOORS[worst_band]
      BY <1>3, <1>4, <3>2, <3>3 DEF known_bands, BAND_FLOORS, Floors
    <3>5. \E k \in Scored : Band(metric_values, k) = worst_band
      BY <1>3, <3>2 DEF known_bands
    <3>6. Score(BAND_FLOORS[worst_band]) = ScoreOf(BAND_FLOORS[worst_band],
              Total(Points(metric_values), Counted(metric_values)),
              Total(Weights, Counted(metric_values)))
      BY <1>2 DEF Score, ScoreOf
    <3> QED  BY <3>1, <3>3, <3>4, <3>5, <3>6 DEF IsResult
  <2> QED  BY <2>1, <2>2
<1> QED  BY <1>1, <1>5 DEF TwoResults, SumsSoFar, IsResult, loop

\* A new collection starts with both sums empty.
LEMMA RecollectSums == ASSUME TwoResults, Inv, Recollect  PROVE TwoResults'
<1>1. /\ todo' = Metric /\ weighted_scores' = 0 /\ total_weight' = 0 /\ composite' = NotScored
      /\ before' = [values |-> metric_values, composite |-> composite]
  BY DEF Recollect
<1>2. Counted(metric_values)' \ todo' = {}
  BY <1>1, TableAssumption DEF Counted
<1>3. SumsSoFar'
  BY <1>1, <1>2, PointsFacts DEF SumsSoFar
<1> QED  BY <1>1, <1>3 DEF TwoResults, IsResult

\* So both results are those of their sums in every state.
LEMMA TwoResultsInvariance == Spec => []TwoResults
<1>1. TwoResults /\ Inv /\ Inv' /\ [Next]_vars => TwoResults'
  <2> SUFFICES ASSUME TwoResults, Inv, Inv', [Next]_vars  PROVE TwoResults'
    OBVIOUS
  <2>1. CASE Next
    BY <2>1, ScoreMetricSums, CompositeSums, RecollectSums DEF Next
  <2>2. CASE UNCHANGED vars
    BY <2>2 DEF vars, loop, TwoResults, SumsSoFar, IsResult
  <2> QED  BY <2>1, <2>2
<1> QED  BY TwoResultsInit, Invariance, <1>1, PTL DEF Spec

\* Rounding keeps the order of what is rounded.
LEMMA NearestGrows ==
    ASSUME NEW a \in Nat, NEW b \in Nat, NEW d \in Nat \ {0}, a <= b
    PROVE  Nearest(a, d) <= Nearest(b, d)
<1> DEFINE p == (2 * a + d) \div (2 * d)
           q == (2 * b + d) \div (2 * d)
<1>1. p \in Int /\ 2 * d * p <= 2 * a + d
  OBVIOUS
<1>2. q \in Int /\ 2 * b + d < 2 * d * (q + 1)
  OBVIOUS
<1>3. p <= q
  <2> SUFFICES ASSUME q + 1 <= p  PROVE FALSE
    BY <1>1, <1>2
  <2> HIDE DEF p, q
  <2>1. 2 * d * (q + 1) <= 2 * d * p
    BY <1>1, <1>2
  <2> QED  BY <1>1, <1>2, <2>1
<1> QED  BY <1>3 DEF Nearest

\* A known sub-metric with a higher value is in no better band.
LEMMA HigherIsNoBetter ==
    ASSUME NEW m \in Scored, NEW low \in Value, NEW high \in Value, low < high
    PROVE  /\ BAND_FLOORS[classify_band(m, low)] <= BAND_FLOORS[classify_band(m, high)]
           /\ classify_band(m, high) = "green" => classify_band(m, low) = "green"
           /\ classify_band(m, low) = "green" <=> low <= BandBounds[m].green_max
           /\ classify_band(m, low) # "unknown" /\ classify_band(m, high) # "unknown"
<1>1. /\ low \in Nat /\ high \in Nat /\ low # NoData /\ high # NoData
      /\ BandBounds[m] \in Bounds
      /\ BandBounds[m].green_max <= BandBounds[m].yellow_max
      /\ BandBounds[m].yellow_max <= BandBounds[m].orange_max
  BY MetricAssumption, TableAssumption
<1>2. /\ BandBounds[m].green_max \in Nat /\ BandBounds[m].yellow_max \in Nat
      /\ BandBounds[m].orange_max \in Nat
  BY <1>1 DEF Bounds
<1> QED  BY <1>1, <1>2 DEF classify_band, BAND_FLOORS

(* A known sub-metric that gets worse never improves the band, and never    *)
(* lowers the score unless it leaves the green in which it was left out: so *)
(* for any number of sub-metrics, any weights and any bounds.               *)
THEOREM WorseIsNeverBetterAlways == Spec => []WorseIsNeverBetter
<1>1. TwoResults /\ Inv => WorseIsNeverBetter
  <2> SUFFICES ASSUME TwoResults, Inv, NEW m \in Scored, Worse(m)
               PROVE  /\ BAND_FLOORS[composite.band] >= BAND_FLOORS[before.composite.band]
                      /\ \/ composite.score >= before.composite.score
                         \/ m \in ExcludedWhenGreen /\ before.values[m] <= BandBounds[m].green_max
    BY DEF WorseIsNeverBetter
  <2> DEFINE v == metric_values
             u == before.values
             F == BAND_FLOORS[composite.band]
             G == BAND_FLOORS[before.composite.band]
  <2>1. /\ m \in Metric /\ v \in Readings /\ u \in Readings
        /\ \A k \in Scored \ {m} : v[k] = u[k]
        /\ u[m] \in Value /\ v[m] \in Value /\ u[m] < v[m]
        /\ composite # NotScored /\ before.composite # NotScored
    <3>1. m \in Metric /\ v \in Readings /\ u \in Readings /\ Scored \subseteq Metric
      BY TableAssumption DEF Inv, TypeOK
    <3>2. u[m] \in Value /\ v[m] \in Value
      BY <3>1 DEF Worse, Readings
    <3>3. u[m] \in Nat /\ v[m] \in Nat /\ v[m] > u[m]
      BY <3>2, MetricAssumption DEF Worse
    <3> QED  BY <3>1, <3>2, <3>3 DEF Worse, Readings
  <2>2. /\ \A k \in Scored \ {m} : Band(v, k) = Band(u, k)
        /\ BAND_FLOORS[Band(u, m)] <= BAND_FLOORS[Band(v, m)]
        /\ Band(v, m) = "green" => Band(u, m) = "green"
        /\ Band(u, m) = "green" <=> u[m] <= BandBounds[m].green_max
        /\ Band(u, m) # "unknown" /\ Band(v, m) # "unknown"
    BY <2>1, HigherIsNoBetter DEF Band
  <2>3. \A k \in Scored : /\ BAND_FLOORS[Band(u, k)] \in Floors /\ BAND_FLOORS[Band(v, k)] \in Floors
                          /\ BAND_FLOORS[Band(u, k)] <= BAND_FLOORS[Band(v, k)]
    <3>1. \A k \in Scored : BAND_FLOORS[Band(u, k)] \in Floors /\ BAND_FLOORS[Band(v, k)] \in Floors
      BY ClassifyFacts DEF Band
    <3> QED  BY <2>2, <3>1 DEF Floors
  <2>4. IsResult(composite, v) /\ IsResult(before.composite, u)
    BY DEF TwoResults
  <2>5. F \in Floors /\ G \in Floors
    BY <2>1, <2>4 DEF IsResult, Bands, BAND_FLOORS, Floors
  <2>6. F >= G
    <3>1. CASE before.composite.band = "unknown"
      BY <2>5, <3>1 DEF BAND_FLOORS, Floors
    <3>2. CASE before.composite.band # "unknown"
      <4>1. PICK k \in Scored : Band(u, k) = before.composite.band
        BY <2>1, <2>4, <3>2 DEF IsResult
      <4>2. G <= BAND_FLOORS[Band(v, k)] /\ BAND_FLOORS[Band(v, k)] <= F
        BY <2>1, <2>3, <2>4, <4>1 DEF IsResult
      <4> QED  BY <2>3, <2>5, <4>2 DEF Floors
    <3> QED  BY <3>1, <3>2
  <2>7. ASSUME ~(m \in ExcludedWhenGreen /\ u[m] <= BandBounds[m].green_max)
        PROVE  composite.score >= before.composite.score
    <3> DEFINE C == Counted(u)
               W == Total(Weights, C)
               a == Total(Points(u), C)
               b == Total(Points(v), C)
    <3>1. Counted(v) = C /\ C \in SUBSET Scored /\ m \in C
      BY <2>2, <2>7 DEF Counted
    <3>2. /\ IsFiniteSet(C) /\ a \in Nat /\ b \in Nat /\ W \in Nat /\ W > 0
          /\ \A k \in C : Points(u)[k] \in Nat /\ Points(v)[k] \in Nat /\ Weights[k] \in Nat
      BY <3>1, PointsFacts
    <3>3. \A k \in C : Points(u)[k] <= Points(v)[k]
      <4> SUFFICES ASSUME NEW k \in C  PROVE Points(u)[k] <= Points(v)[k]
        OBVIOUS
      <4>1. k \in Scored /\ Weights[k] \in Nat
        BY <3>1, <3>2
      <4>2. BAND_FLOORS[Band(u, k)] * Weights[k] <= BAND_FLOORS[Band(v, k)] * Weights[k]
        BY <2>3, <4>1, ProductGrows DEF Floors
      <4> QED  BY <4>1, <4>2 DEF Points
    <3>4. a <= b
      BY <3>2, <3>3, TotalOfLess
    <3>5. composite.score = ScoreOf(F, b, W) /\ before.composite.score = ScoreOf(G, a, W)
      BY <2>1, <2>4, <3>1 DEF IsResult
    <3> HIDE DEF a, b, W, F, G, C
    <3>6. G * W <= F * W /\ F \in Nat /\ G \in Nat
      BY <2>5, <2>6, <3>2, ProductGrows DEF Floors
    <3>7. /\ 7 * G * W + 3 * a \in Nat /\ 7 * F * W + 3 * b \in Nat
          /\ 7 * G * W + 3 * a <= 7 * F * W + 3 * b
      <4>1. F * W \in Nat /\ G * W \in Nat /\ 7 * G * W = 7 * (G * W) /\ 7 * F * W = 7 * (F * W)
        BY <3>2, <3>6
      <4> QED  BY <3>2, <3>4, <3>6, <4>1
    <3>8. Nearest(7 * G * W + 3 * a, W) <= Nearest(7 * F * W + 3 * b, W)
      BY <3>2, <3>7, NearestGrows
    <3>9. composite.score \in Nat /\ before.composite.score \in Nat
      BY <2>1 DEF Inv, TypeOK
    <3> QED  BY <3>2, <3>5, <3>8, <3>9 DEF ScoreOf
  <2> QED  BY <2>6, <2>7
<1> QED  BY TwoResultsInvariance, Invariance, <1>1, PTL
================================================================================
