--------------------------------- MODULE Ratios --------------------------------
(***************************************************************************)
(* The numbers of the metrics.  A ratio is a pair <<dividend, divisor>>, so*)
(* that two of them compare exactly; a value that is missing is NoData.    *)
(***************************************************************************)
EXTENDS Integers, FiniteSets, FiniteSetsExt

CONSTANT NoData     \* None

Ratio(n, d) == <<n, d>>
Zero == <<0, 1>>
One == <<1, 1>>
AtMost(r, s) == r[1] * s[2] <= s[1] * r[2]
Same(r, s) == r = s \/ (NoData \notin {r, s} /\ AtMost(r, s) /\ AtMost(s, r))

\* _worst(), of those that are known.
_worst(values) ==
    IF values \ {NoData} = {} THEN NoData
    ELSE CHOOSE r \in values \ {NoData} : \A s \in values \ {NoData} : AtMost(s, r)

\* Mutant: a host with no powered-on VMs has no ratio.
monster_size_ratio_of_some(sizes, monster_size, vm_count) ==
    IF monster_size = 0 \/ sizes = {} THEN NoData
    ELSE Ratio(100 * Max(sizes), monster_size)

\* The size is in hundredths: it is cores or memory times a percentage.
monster_size_ratio(sizes, monster_size, vm_count) ==
    IF monster_size = 0 THEN NoData
    ELSE IF sizes = {} THEN (IF vm_count = 0 THEN Zero ELSE NoData)
    ELSE Ratio(100 * Max(sizes), monster_size)
================================================================================
