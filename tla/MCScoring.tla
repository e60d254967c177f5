------------------------------- MODULE MCScoring -------------------------------
(***************************************************************************)
(* Bounds of the tests (1, 2, 3); a value on each bound and one above.     *)
(* The weights are the three the tables use, 0.75, 1 and 1.25; "other" is  *)
(* a key with no bounds.                                                   *)
(***************************************************************************)
EXTENDS Scoring

MCMetric == {"p90", "plain", "monster", "other"}
MCValue == 1..4
MCBandBounds == [m \in MCMetric \ {"other"} |->
                    [green_max |-> 1, yellow_max |-> 2, orange_max |-> 3]]
MCWeights == [p90 |-> 3, plain |-> 4, monster |-> 5]
MCExcluded == {"p90"}
================================================================================
